---- MODULE Spec2Model ----
(***************************************************************************)
(* Model of the FGP command-line tool's health watchdog                    *)
(* (src/src/commands/monitor.rs) and MCP protocol bridge                   *)
(* (src/src/commands/mcp_bridge.rs).                                       *)
(*                                                                         *)
(* Strings that the code takes apart (service names, tool names, daemon    *)
(* method names) are sequences of one-character strings; strings that are  *)
(* only compared are TLA+ strings.                                         *)
(***************************************************************************)
EXTENDS Integers, Sequences, FiniteSets, TLC

VARIABLES
    enabled,        \* WatchdogConfig.enabled
    max_restarts,   \* WatchdogConfig.max_restarts
    states,         \* run(): states, HashMap<String, ServiceState>
    attempts,       \* RestartTracker.attempts, HashMap<String, u32>
    wpc,            \* position of run(): "check", "iter", "sleep"; "delay" in attempt_restart
    entries,        \* check_services(): directory entries still to visit
    wlog,           \* per service, one record per loop iteration that visited it
    visits,         \* number of loop iterations done so far
    hpc,            \* a single call of a function on its own: "idle", "call" or "done"
    harg,           \* its arguments
    hret,           \* what it yields (attempt_restart: the calls it made, in order)
    bpc,            \* position of serve(): "read", "wrote", "eof" (Ok) or "failed" (Err);
                    \* within handle_tools_call: "start", "connect"
    bline,          \* what the last read of stdin gave in the current iteration
    breq,           \* the request of the current iteration of serve()'s loop
    benv,           \* what the handler of that request met outside the bridge
    bresp,          \* the response line written for it
    btrace,         \* the calls made on daemons and lifecycle for it
    catalog,        \* MCP client: the tools of its tools/list and what they were built from
    picked,         \* MCP client: index in the catalog of the tool it calls
    world,          \* per service, the condition of its daemon and of its socket
    issued,         \* per service, who called start_service since it last went down
    wobs,           \* attempt_restart asleep: the state observed, the tracker before
    scanning        \* handle_tools_list, handle_list_daemons: entries of read_dir to come

wvars == <<enabled, max_restarts, states, attempts, wpc, entries, wlog, visits>>

hvars == <<hpc, harg, hret>>

bvars == <<bpc, bline, breq, benv, bresp, btrace>>

cvars == <<catalog, picked>>

xvars == <<world, issued, wobs, scanning>>

vars == <<wvars, hvars, bvars, cvars, xvars>>

----------------------------------------------------------------------------
(* Bounds and input sets of the watchdog                                   *)

\* Loop iterations of check_services explored, over all passes.
MaxVisits == 5

\* Values of --max-restarts explored (0 = unlimited).
MaxRestartsChoices == {0, 1, 2}

\* Installed services (directory names under ~/.fgp/services).
NameX == <<"x">>
NameY == <<"y">>
Names == {NameX, NameY}

\* A directory entry: its name, and whether the name is valid UTF-8.
Entry(n, u) == [name |-> n, utf8 |-> u]

\* What read_dir can yield in one pass.
Listings ==
    { <<>>,
      <<Entry(NameX, TRUE)>>,
      <<Entry(NameY, TRUE)>>,
      <<Entry(NameX, TRUE), Entry(NameY, TRUE)>>,
      <<Entry(NameY, FALSE), Entry(NameX, TRUE)>> }

ServiceState == {"Running", "Stopped", "Unhealthy", "Error"}

\* states.get(name) == None
NoState == "None"

\* What a health probe of one daemon can meet: whether the socket file exists,
\* whether FgpClient::new succeeds, what health() returns ("err": Err(_),
\* "notok": Ok with ok = false, "ok": Ok with ok = true) and the status string
\* of the result ("absent": no result or no string under "status").
Probe(s, c, h, st) == [sock |-> s, conn |-> c, health |-> h, status |-> st]

StatusStrings == {"healthy", "running", "degraded", "unhealthy", "starting", "absent"}

Probes ==
    { Probe(FALSE, "err", "err", "absent"),
      Probe(TRUE, "err", "err", "absent"),
      Probe(TRUE, "ok", "err", "absent"),
      Probe(TRUE, "ok", "notok", "absent") }
    \cup { Probe(TRUE, "ok", "ok", st) : st \in StatusStrings }

StartResults == {"ok", "err"}

----------------------------------------------------------------------------
(* HashMap operations                                                      *)

Insert(m, k, v) == [x \in (DOMAIN m) \cup {k} |-> IF x = k THEN v ELSE m[x]]

Remove(m, k) == [x \in (DOMAIN m) \ {k} |-> m[x]]

EmptyMap == [x \in {} |-> 0]

\* attempts.entry(name).or_insert(0), read
Counter(m, k) == IF k \in DOMAIN m THEN m[k] ELSE 0

----------------------------------------------------------------------------
(* Events: the calls the watchdog makes on its collaborators               *)

Notify(title) == [ev |-> "notify", arg |-> title]
SleepDelay == [ev |-> "sleep", arg |-> "restart_delay"]
Start(res) == [ev |-> "start", arg |-> res]

----------------------------------------------------------------------------
(* monitor.rs                                                              *)

get_service_state(p) ==
    IF ~p.sock THEN "Stopped"
    ELSE IF p.conn # "ok" THEN "Error"
    ELSE IF p.health # "ok" THEN "Error"
    ELSE LET status == IF p.status = "absent" THEN "running" ELSE p.status
         IN  IF status \in {"healthy", "running"} THEN "Running"
             ELSE IF status \in {"degraded", "unhealthy"} THEN "Unhealthy"
             ELSE "Running"

\* A variant that also restarts a service that went unhealthy.
should_restart_unhealthy(prev, current) ==
    \/ prev = "Running" /\ current = "Error"
    \/ prev = "Running" /\ current = "Stopped"
    \/ prev = "Running" /\ current = "Unhealthy"

should_restart(prev, current) ==
    \/ prev = "Running" /\ current = "Error"
    \/ prev = "Running" /\ current = "Stopped"

NoTitle == "none"

\* A variant that also reports a crash of an unhealthy service.
transition_title_extra(prev, current) ==
    IF prev = "Running" /\ current = "Error" THEN "FGP Service Crashed"
    ELSE IF prev = "Unhealthy" /\ current = "Error" THEN "FGP Service Crashed"
    ELSE IF prev = "Running" /\ current = "Stopped" THEN "FGP Service Stopped"
    ELSE IF prev = "Running" /\ current = "Unhealthy" THEN "FGP Service Unhealthy"
    ELSE IF prev = "Unhealthy" /\ current = "Running" THEN "FGP Service Recovered"
    ELSE IF prev = "Error" /\ current = "Running" THEN "FGP Service Started"
    ELSE IF prev = "Stopped" /\ current = "Running" THEN "FGP Service Started"
    ELSE NoTitle

\* The title of the notification of a transition; NoTitle for the arm that
\* only logs and returns.
transition_title(prev, current) ==
    IF prev = "Running" /\ current = "Error" THEN "FGP Service Crashed"
    ELSE IF prev = "Running" /\ current = "Stopped" THEN "FGP Service Stopped"
    ELSE IF prev = "Running" /\ current = "Unhealthy" THEN "FGP Service Unhealthy"
    ELSE IF prev = "Unhealthy" /\ current = "Running" THEN "FGP Service Recovered"
    ELSE IF prev = "Error" /\ current = "Running" THEN "FGP Service Started"
    ELSE IF prev = "Stopped" /\ current = "Running" THEN "FGP Service Started"
    ELSE NoTitle

\* A variant that compares with >= : it refuses the attempt that reaches the limit.
limit_exceeded_ge(maxr, count) == maxr > 0 /\ count >= maxr

\* if watchdog.max_restarts > 0 && *attempts > watchdog.max_restarts
limit_exceeded(maxr, count) == maxr > 0 /\ count > maxr

\* A variant that takes the increment back when start_service fails.
attempt_restart_rollback(name, maxr, tracker, startRes) ==
    LET count == Counter(tracker, name) + 1
        tr    == Insert(tracker, name, count)
    IN  IF limit_exceeded(maxr, count)
        THEN [tracker |-> tr, events |-> <<Notify("FGP Restart Limit Reached")>>]
        ELSE IF startRes = "ok"
        THEN [tracker |-> tr, events |-> <<SleepDelay, Start(startRes)>>]
        ELSE [tracker |-> tracker,
              events  |-> <<SleepDelay, Start(startRes), Notify("FGP Restart Failed")>>]

\* A variant that tries start_service a second time when the first try fails.
attempt_restart_retry(name, maxr, tracker, startRes) ==
    LET count == Counter(tracker, name) + 1
        tr    == Insert(tracker, name, count)
    IN  IF limit_exceeded(maxr, count)
        THEN [tracker |-> tr, events |-> <<Notify("FGP Restart Limit Reached")>>]
        ELSE [tracker |-> tr,
              events  |-> <<SleepDelay, Start(startRes)>> \o
                          (IF startRes = "ok" THEN <<>>
                           ELSE <<Start(startRes), Notify("FGP Restart Failed")>>)]

\* Result: the tracker's map and the calls made, in order.
attempt_restart(name, maxr, tracker, startRes) ==
    LET count == Counter(tracker, name) + 1
        tr    == Insert(tracker, name, count)
    IN  IF limit_exceeded(maxr, count)
        THEN [tracker |-> tr, events |-> <<Notify("FGP Restart Limit Reached")>>]
        ELSE [tracker |-> tr,
              events  |-> <<SleepDelay, Start(startRes)>> \o
                          (IF startRes = "ok" THEN <<>>
                           ELSE <<Notify("FGP Restart Failed")>>)]

\* A variant that restarts whether or not auto-restart is enabled.
handle_state_change_always(name, prev, current, en, maxr, tracker, startRes) ==
    LET title == transition_title(prev, current)
    IN  IF title = NoTitle
        THEN [tracker |-> tracker, events |-> <<>>]
        ELSE IF should_restart(prev, current)
             THEN LET r == attempt_restart(name, maxr, tracker, startRes)
                  IN  [tracker |-> r.tracker, events |-> <<Notify(title)>> \o r.events]
             ELSE [tracker |-> tracker, events |-> <<Notify(title)>>]

\* A variant that also restarts a service seen to go from Stopped to Error
\* or from Error to Stopped.
handle_state_change_retry(name, prev, current, en, maxr, tracker, startRes) ==
    LET title == transition_title(prev, current)
    IN  IF title = NoTitle
        THEN IF en /\ current \in {"Stopped", "Error"}
             THEN attempt_restart(name, maxr, tracker, startRes)
             ELSE [tracker |-> tracker, events |-> <<>>]
        ELSE IF en /\ should_restart(prev, current)
             THEN LET r == attempt_restart(name, maxr, tracker, startRes)
                  IN  [tracker |-> r.tracker, events |-> <<Notify(title)>> \o r.events]
             ELSE [tracker |-> tracker, events |-> <<Notify(title)>>]

handle_state_change(name, prev, current, en, maxr, tracker, startRes) ==
    LET title == transition_title(prev, current)
    IN  IF title = NoTitle
        THEN [tracker |-> tracker, events |-> <<>>]
        ELSE IF en /\ should_restart(prev, current)
             THEN LET r == attempt_restart(name, maxr, tracker, startRes)
                  IN  [tracker |-> r.tracker, events |-> <<Notify(title)>> \o r.events]
             ELSE [tracker |-> tracker, events |-> <<Notify(title)>>]

\* A variant that never clears the counter.
reset_counter_never(tracker, name, current) == tracker

\* "Reset restart counter if service came back up"
reset_counter(tracker, name, current) ==
    IF current = "Running" THEN Remove(tracker, name) ELSE tracker

\* A variant that leaves the counter in place when the service is back.
check_entry_keeps_counter(name, current, sts, en, maxr, tracker, startRes) ==
    LET prev == IF name \in DOMAIN sts THEN sts[name] ELSE NoState
        r    == IF prev # NoState /\ prev # current
                THEN handle_state_change(name, prev, current, en, maxr,
                                         tracker, startRes)
                ELSE [tracker |-> tracker, events |-> <<>>]
    IN  [states  |-> Insert(sts, name, current),
         tracker |-> r.tracker,
         visit   |-> [prev |-> prev, cur |-> current, events |-> r.events]]

\* One iteration of the loop of check_services for a UTF-8 entry: the new
\* states, the new tracker and the record of the visit.
check_entry(name, current, sts, en, maxr, tracker, startRes) ==
    LET prev == IF name \in DOMAIN sts THEN sts[name] ELSE NoState
        r    == IF prev # NoState /\ prev # current
                THEN LET h == handle_state_change(name, prev, current, en, maxr,
                                                  tracker, startRes)
                     IN  [tracker |-> reset_counter(h.tracker, name, current),
                          events  |-> h.events]
                ELSE [tracker |-> tracker, events |-> <<>>]
    IN  [states  |-> Insert(sts, name, current),
         tracker |-> r.tracker,
         visit   |-> [prev |-> prev, cur |-> current, events |-> r.events]]

----------------------------------------------------------------------------
(* The watchdog's loop: run()                                              *)

WInit ==
    /\ enabled \in BOOLEAN
    /\ max_restarts \in MaxRestartsChoices
    /\ states = EmptyMap
    /\ attempts = EmptyMap
    /\ wpc = "check"
    /\ entries = <<>>
    /\ wlog = [n \in Names |-> <<>>]
    /\ visits = 0

\* A variant in which a directory that cannot be read ends run().
CheckServicesNoDirAbort ==
    /\ wpc = "check"
    /\ wpc' = "exit"
    /\ UNCHANGED <<enabled, max_restarts, states, attempts, entries, wlog, visits>>
    /\ UNCHANGED <<hvars, bvars, cvars, xvars>>

\* check_services returns at once: the services directory does not exist or
\* cannot be read.
CheckServicesNoDir ==
    /\ wpc = "check"
    /\ wpc' = "sleep"
    /\ UNCHANGED <<enabled, max_restarts, states, attempts, entries, wlog, visits>>
    /\ UNCHANGED <<hvars, bvars, cvars, xvars>>

\* check_services reads the directory and enters its loop.
CheckServicesList ==
    /\ wpc = "check"
    /\ \E l \in Listings :
          /\ visits + Len(l) <= MaxVisits
          /\ entries' = l
    /\ wpc' = "iter"
    /\ UNCHANGED <<enabled, max_restarts, states, attempts, wlog, visits>>
    /\ UNCHANGED <<hvars, bvars, cvars, xvars>>

\* An entry whose name is not UTF-8: continue.
SkipEntry ==
    /\ wpc = "iter"
    /\ entries # <<>>
    /\ ~Head(entries).utf8
    /\ entries' = Tail(entries)
    /\ visits' = visits + 1
    /\ UNCHANGED <<enabled, max_restarts, states, attempts, wpc, wlog>>
    /\ UNCHANGED <<hvars, bvars, cvars, xvars>>

\* One iteration of the loop: probe the service, handle a change of state,
\* record the state.
VisitEntry ==
    /\ wpc = "iter"
    /\ entries # <<>>
    /\ Head(entries).utf8
    /\ \E p \in Probes, sr \in StartResults :
          LET name == Head(entries).name
              r    == check_entry(name, get_service_state(p), states, enabled,
                                  max_restarts, attempts, sr)
          IN  /\ states' = r.states
              /\ attempts' = r.tracker
              /\ wlog' = [wlog EXCEPT ![name] = Append(@, r.visit)]
    /\ entries' = Tail(entries)
    /\ visits' = visits + 1
    /\ UNCHANGED <<enabled, max_restarts, wpc>>
    /\ UNCHANGED <<hvars, bvars, cvars, xvars>>

\* The loop is over: check_services returns and run() sleeps the interval.
FinishPass ==
    /\ wpc = "iter"
    /\ entries = <<>>
    /\ wpc' = "sleep"
    /\ UNCHANGED <<enabled, max_restarts, states, attempts, entries, wlog, visits>>
    /\ UNCHANGED <<hvars, bvars, cvars, xvars>>

\* thread::sleep(interval) returns; the next pass begins.
SleepInterval ==
    /\ wpc = "sleep"
    /\ wpc' = "check"
    /\ UNCHANGED <<enabled, max_restarts, states, attempts, entries, wlog, visits>>
    /\ UNCHANGED <<hvars, bvars, cvars, xvars>>

WNext ==
    \/ CheckServicesNoDir
    \/ CheckServicesList
    \/ SkipEntry
    \/ VisitEntry
    \/ FinishPass
    \/ SleepInterval

\* No single call of attempt_restart is under way.
HIdle ==
    /\ hpc = "idle"
    /\ harg = [name |-> NameX, tracker |-> EmptyMap]
    /\ hret = <<>>

----------------------------------------------------------------------------
(* mcp_bridge.rs: values                                                   *)

\* A JSON value read with as_str(): a string, or anything else (absent, null,
\* a number, ...), for which as_str() is None.
JStr(s) == [kind |-> "string", s |-> s]
JOther == [kind |-> "other"]

\* v.as_str().unwrap_or(d)
as_str_or(v, d) == IF v.kind = "string" THEN v.s ELSE d

\* request.get("id"): None when the request has no id
Absent == "absent"

\* The JSON texts of the ids explored: null, a number, a string.
IdValues == {"null", "7", "\"r1\""}

Fgp == <<"f", "g", "p", "_">>
FgpListDaemons == Fgp \o <<"l", "i", "s", "t", "_", "d", "a", "e", "m", "o", "n", "s">>
FgpStartDaemon == Fgp \o <<"s", "t", "a", "r", "t", "_", "d", "a", "e", "m", "o", "n">>
FgpStopDaemon == Fgp \o <<"s", "t", "o", "p", "_", "d", "a", "e", "m", "o", "n">>
MetaTools == {FgpListDaemons, FgpStartDaemon, FgpStopDaemon}

MHealth == <<"h", "e", "a", "l", "t", "h">>
MStop == <<"s", "t", "o", "p">>
MMethods == <<"m", "e", "t", "h", "o", "d", "s">>
MUnknown == <<"u", "n", "k", "n", "o", "w", "n">>
MDotted == <<"q", ".", "r">>
MUnderscored == <<"q", "_", "r">>

\* A variant that leaves "methods" out of the methods to skip.
InternalMethodsShort == {MHealth, MStop}

\* "Skip internal methods"
InternalMethods == {MHealth, MStop, MMethods}

\* JSON-RPC error codes
CodeMethodNotFound == -32601
CodeInvalidParams == -32602
CodeInternal == -32603

\* Duration::from_millis(500)
GraceMs == 500

SeqsUpTo(S, n) == UNION { [1..k -> S] : k \in 0..n }

----------------------------------------------------------------------------
(* Bounds and input sets of the bridge                                     *)

\* Longest methods array a daemon answers with.
MaxMethods == 2

\* Longest tail of a tool name, after an optional fgp_ prefix.
MaxTail == 3

TailAlphabet == {"x", "_", "q"}

\* The "name" fields a methods array holds.
MethodNameValues ==
    { JStr(MHealth), JStr(MStop), JStr(MMethods), JStr(MDotted),
      JStr(MUnderscored), JOther }

\* method.get("params"): None when the entry has no "params"
NoParams == "absent"

\* One entry of a methods array: what its "name" and its "description" hold,
\* and its "params". An entry that is not an object has none of the three.
Method(n, d, p) == [name |-> n, description |-> d, params |-> p]

\* Entries with a name only.
NamedEntries == { Method(n, JOther, NoParams) : n \in MethodNameValues }

\* Those, and the entries named q.r with or without a description and with
\* params absent, null or an object schema.
MethodEntries ==
    NamedEntries
    \cup { Method(JStr(MDotted), d, p) :
             d \in {JStr("Does q"), JOther},
             p \in {NoParams, "null", "object, properties a"} }

\* What client.methods() can return: Err ("err"), ok = false ("notok"), no
\* result ("noresult"), a result without a methods array ("notarray"), or a
\* methods array of entries of E.
MethodsOutcome(k, l) == [kind |-> k, list |-> l]

MethodsOutcomes(E) ==
    { MethodsOutcome(k, <<>>) : k \in {"err", "notok", "noresult", "notarray"} }
    \cup { MethodsOutcome("array", l) : l \in SeqsUpTo(E, MaxMethods) }

\* An installed service as a handler meets it: its directory name, whether
\* its socket exists, whether FgpClient::new succeeds, what health() returns
\* ("err": Err, "notok": Ok with ok = false, "ok") and what methods() returns.
Daemon(n, s, c, h, m) == [name |-> n, sock |-> s, conn |-> c, health |-> h, methods |-> m]

\* The conditions of one service that tools/list tells apart, its methods
\* array holding entries of E.
ListConditions(n, E) ==
    { Daemon(n, FALSE, "err", "err", MethodsOutcome("err", <<>>)),
      Daemon(n, TRUE, "err", "err", MethodsOutcome("err", <<>>)) }
    \cup { Daemon(n, TRUE, "ok", "ok", m) : m \in MethodsOutcomes(E) }

\* The conditions of one service that fgp_list_daemons tells apart.
HealthConditions(n) ==
    { Daemon(n, FALSE, "err", "err", MethodsOutcome("err", <<>>)),
      Daemon(n, TRUE, "err", "err", MethodsOutcome("err", <<>>)) }
    \cup { Daemon(n, TRUE, "ok", h, MethodsOutcome("err", <<>>)) :
             h \in {"err", "notok", "ok"} }

\* What client.call() can return: Err, ok = true, ok = false with or without
\* an error message.
CallOutcomes == {"err", "ok", "notok_msg", "notok_nomsg"}

\* What a handler meets: the services directory ("ok", "missing",
\* "unreadable") and its services; for the daemon a tool name addresses,
\* whether its socket exists, the results of start_service and stop_service,
\* of FgpClient::new and of client.call.
Env(d, ds, s, st, sp, c, cl) ==
    [dir |-> d, daemons |-> ds, sock |-> s, start |-> st, stop |-> sp,
     conn |-> c, call |-> cl]

NoEnv == Env("missing", <<>>, FALSE, "err", "err", "err", "err")

\* The services directory as a handler can find it: missing, unreadable,
\* empty, holding x alone in a condition of S, or holding x and y, x in a
\* condition of A and y of B.
DirEnvs(S, A, B) ==
    { Env(d, <<>>, FALSE, "err", "err", "err", "err") : d \in {"missing", "unreadable"} }
    \cup { Env("ok", <<>>, FALSE, "err", "err", "err", "err") }
    \cup { Env("ok", <<a>>, FALSE, "err", "err", "err", "err") : a \in S }
    \cup { Env("ok", <<a, b>>, FALSE, "err", "err", "err", "err") : a \in A, b \in B }

\* Descriptions and params are explored on a directory holding one service.
ListEnvs ==
    DirEnvs(ListConditions(NameX, MethodEntries),
            ListConditions(NameX, NamedEntries), ListConditions(NameY, NamedEntries))

DaemonsEnvs ==
    DirEnvs(HealthConditions(NameX), HealthConditions(NameX), HealthConditions(NameY))

CallEnvs ==
    { Env("ok", <<>>, s, st, sp, c, cl) :
        s \in BOOLEAN, st \in {"ok", "err"}, sp \in {"ok", "err"},
        c \in {"ok", "err"}, cl \in CallOutcomes }

\* params.arguments: absent, or an object whose "name" is a daemon name or
\* is not a string.
NoArguments == [kind |-> "absent", name |-> JOther]
Arguments(n) == [kind |-> "object", name |-> n]
ArgumentValues == {NoArguments, Arguments(JOther), Arguments(JStr(NameX))}

\* A request line that parsed: whether it is a JSON object, its id, its
\* method, params.name and params.arguments.
Request(o, i, m, n, a) == [obj |-> o, id |-> i, method |-> m, name |-> n, arguments |-> a]

NoRequest == Request(FALSE, Absent, JOther, JOther, NoArguments)

ToolNames ==
    MetaTools \cup
    { p \o t : p \in {<<>>, Fgp}, t \in SeqsUpTo(TailAlphabet, MaxTail) }

OtherMethods == {JStr("initialize"), JStr("tools/list"), JStr("resources/list"),
                 JStr(""), JOther}

Requests ==
    { NoRequest }
    \cup { Request(TRUE, i, m, JOther, NoArguments) :
             i \in IdValues \cup {Absent}, m \in OtherMethods }
    \cup { Request(TRUE, i, JStr("tools/call"), n, a) :
             i \in IdValues \cup {Absent},
             n \in {JStr(t) : t \in ToolNames} \cup {JOther},
             a \in ArgumentValues }

----------------------------------------------------------------------------
(* mcp_bridge.rs: helpers                                                  *)

\* Calls on the collaborators
CStart(d, res) == [op |-> "start", svc |-> d, res |-> res]
CStop(d, res) == [op |-> "stop", svc |-> d, res |-> res]
CSleep(ms) == [op |-> "sleep", ms |-> ms]
CConnect(d, res) == [op |-> "connect", svc |-> d, res |-> res]
CCall(d, m, a, res) == [op |-> "call", svc |-> d, method |-> m, args |-> a, res |-> res]
CHealth(d, res) == [op |-> "health", svc |-> d, res |-> res]
CMethods(d, res) == [op |-> "methods", svc |-> d, res |-> res]

\* json!({"id": id}) of an Option: None serialises as null
id_json(id) == IF id = Absent THEN "null" ELSE id

json_rpc_response(id, result) ==
    [jsonrpc |-> "2.0", id |-> id_json(id), result |-> result]

json_rpc_error(id, code, message) ==
    [jsonrpc |-> "2.0", id |-> id_json(id),
     error |-> [code |-> code, message |-> message]]

\* A variant that loses the id.
get_id_none(request) == Absent

\* request.get("id").cloned(): None for a request that is not an object
get_id(request) == IF request.obj THEN request.id ELSE Absent

\* s.replace(a, b) for characters a, b
replace(s, a, b) == [i \in 1..Len(s) |-> IF s[i] = a THEN b ELSE s[i]]

\* s.strip_prefix("fgp_").unwrap_or(s)
strip_fgp(s) ==
    IF Len(s) >= Len(Fgp) /\ SubSeq(s, 1, Len(Fgp)) = Fgp
    THEN SubSeq(s, Len(Fgp) + 1, Len(s))
    ELSE s

\* A variant that always yields two parts, the second empty when there is no
\* underscore.
splitn2_padded(s) ==
    LET us == {i \in 1..Len(s) : s[i] = "_"}
    IN  IF us = {} THEN <<s, <<>>>>
        ELSE LET i == CHOOSE j \in us : \A k \in us : j <= k
             IN  <<SubSeq(s, 1, i - 1), SubSeq(s, i + 1, Len(s))>>

\* s.splitn(2, '_').collect()
splitn2(s) ==
    LET us == {i \in 1..Len(s) : s[i] = "_"}
    IN  IF us = {} THEN <<s>>
        ELSE LET i == CHOOSE j \in us : \A k \in us : j <= k
             IN  <<SubSeq(s, 1, i - 1), SubSeq(s, i + 1, Len(s))>>

\* format!("fgp_{}_{}", name, method_name.replace('.', "_"))
tool_name_of(name, method_name) ==
    Fgp \o name \o <<"_">> \o replace(method_name, ".", "_")

Text(t) == [content |-> <<[type |-> "text", text |-> t]>>]

DefaultSchema == "object, no properties"

----------------------------------------------------------------------------
(* mcp_bridge.rs: handlers. Each yields the response and the calls made.   *)

Handled(resp, calls) == [response |-> resp, calls |-> calls]

handle_initialize(request) ==
    Handled(json_rpc_response(get_id(request),
                [protocolVersion |-> "2024-11-05",
                 serverInfo |-> "fgp-mcp-bridge",
                 capabilities |-> "tools"]),
            <<>>)

\* The tools one daemon's methods array contributes.
RECURSIVE method_tools(_, _)
method_tools(name, methods) ==
    IF methods = <<>> THEN <<>>
    ELSE LET method       == Head(methods)
             method_name  == as_str_or(method.name, MUnknown)
             description  == as_str_or(method.description, "No description")
             input_schema == IF method.params # NoParams THEN method.params
                             ELSE DefaultSchema
             rest == method_tools(name, Tail(methods))
         IN  IF method_name \in InternalMethods THEN rest
             ELSE <<[name |-> tool_name_of(name, method_name),
                     description |-> <<"FGP", name, description>>,
                     inputSchema |-> input_schema]>> \o rest

\* One directory entry of tools/list: its tools and the calls made.
daemon_tools(d) ==
    IF ~d.sock THEN Handled(<<>>, <<>>)
    ELSE IF d.conn # "ok" THEN Handled(<<>>, <<CConnect(d.name, "err")>>)
    ELSE LET calls == <<CConnect(d.name, "ok"), CMethods(d.name, d.methods.kind)>>
         IN  IF d.methods.kind = "array"
             THEN Handled(method_tools(d.name, d.methods.list), calls)
             ELSE Handled(<<>>, calls)

RECURSIVE scan_daemons(_)
scan_daemons(ds) ==
    IF ds = <<>> THEN Handled(<<>>, <<>>)
    ELSE LET h == daemon_tools(Head(ds))
             r == scan_daemons(Tail(ds))
         IN  Handled(h.response \o r.response, h.calls \o r.calls)

MetaDescriptor(n, d, schema) == [name |-> n, description |-> d, inputSchema |-> schema]

meta_tools ==
    << MetaDescriptor(FgpListDaemons, <<"List all FGP daemons with their status">>,
                      DefaultSchema),
       MetaDescriptor(FgpStartDaemon, <<"Start an FGP daemon">>, "object, name required"),
       MetaDescriptor(FgpStopDaemon, <<"Stop an FGP daemon">>, "object, name required") >>

handle_tools_list(env) ==
    LET scan == IF env.dir = "ok" THEN scan_daemons(env.daemons)
                ELSE Handled(<<>>, <<>>)
    IN  Handled(json_rpc_response(Absent, [tools |-> scan.response \o meta_tools]),
                scan.calls)

\* One directory entry of fgp_list_daemons: its status and the calls made.
daemon_status(d) ==
    IF ~d.sock THEN Handled("stopped", <<>>)
    ELSE IF d.conn # "ok" THEN Handled("error", <<CConnect(d.name, "err")>>)
    ELSE Handled(IF d.health # "err" THEN "running" ELSE "error",
                 <<CConnect(d.name, "ok"), CHealth(d.name, d.health)>>)

RECURSIVE list_statuses(_)
list_statuses(ds) ==
    IF ds = <<>> THEN Handled(<<>>, <<>>)
    ELSE LET h == daemon_status(Head(ds))
             r == list_statuses(Tail(ds))
         IN  Handled(<<[name |-> Head(ds).name, status |-> h.response]>> \o r.response,
                     h.calls \o r.calls)

handle_list_daemons(id, env) ==
    LET l == IF env.dir = "ok" THEN list_statuses(env.daemons)
             ELSE Handled(<<>>, <<>>)
    IN  Handled(json_rpc_response(id, Text(l.response)), l.calls)

handle_start_daemon(id, name, env) ==
    IF env.start = "ok"
    THEN Handled(json_rpc_response(id, Text(<<"Started daemon", name>>)),
                 <<CStart(name, "ok")>>)
    ELSE Handled(json_rpc_error(id, CodeInternal, <<"Failed to start daemon">>),
                 <<CStart(name, "err")>>)

handle_stop_daemon(id, name, env) ==
    IF env.stop = "ok"
    THEN Handled(json_rpc_response(id, Text(<<"Stopped daemon", name>>)),
                 <<CStop(name, "ok")>>)
    ELSE Handled(json_rpc_error(id, CodeInternal, <<"Failed to stop daemon">>),
                 <<CStop(name, "err")>>)

\* A variant that goes on to the daemon when start_service fails.
auto_start_goes_on(daemon, env) ==
    IF env.sock THEN [go |-> TRUE, calls |-> <<>>]
    ELSE IF env.start # "ok"
    THEN [go |-> TRUE, calls |-> <<CStart(daemon, "err"), CSleep(GraceMs)>>]
    ELSE [go |-> TRUE, calls |-> <<CStart(daemon, "ok"), CSleep(GraceMs)>>]

\* A variant that does not wait after starting the daemon.
auto_start_no_wait(daemon, env) ==
    IF env.sock THEN [go |-> TRUE, calls |-> <<>>]
    ELSE IF env.start # "ok" THEN [go |-> FALSE, calls |-> <<CStart(daemon, "err")>>]
    ELSE [go |-> TRUE, calls |-> <<CStart(daemon, "ok")>>]

\* "Auto-start if needed": whether the handler goes on, and the calls made.
auto_start(daemon, env) ==
    IF env.sock THEN [go |-> TRUE, calls |-> <<>>]
    ELSE IF env.start # "ok" THEN [go |-> FALSE, calls |-> <<CStart(daemon, "err")>>]
    ELSE [go |-> TRUE, calls |-> <<CStart(daemon, "ok"), CSleep(GraceMs)>>]

\* A variant that takes every answer of the daemon for a result.
call_daemon_any_answer(id, daemon, method, arguments, env) ==
    IF env.conn # "ok"
    THEN Handled(json_rpc_error(id, CodeInternal, <<"Failed to connect to daemon">>),
                 <<CConnect(daemon, "err")>>)
    ELSE LET calls == <<CConnect(daemon, "ok"), CCall(daemon, method, arguments, env.call)>>
         IN  IF env.call # "err"
             THEN Handled(json_rpc_response(id, Text(<<"result">>)), calls)
             ELSE Handled(json_rpc_error(id, CodeInternal, <<"Call failed">>), calls)

\* FgpClient::new(&socket), then client.call(&method, arguments)
call_daemon(id, daemon, method, arguments, env) ==
    IF env.conn # "ok"
    THEN Handled(json_rpc_error(id, CodeInternal, <<"Failed to connect to daemon">>),
                 <<CConnect(daemon, "err")>>)
    ELSE LET calls == <<CConnect(daemon, "ok"), CCall(daemon, method, arguments, env.call)>>
         IN  IF env.call = "ok"
             THEN Handled(json_rpc_response(id, Text(<<"result">>)), calls)
             ELSE IF env.call = "notok_msg"
             THEN Handled(json_rpc_error(id, CodeInternal, <<"daemon error message">>), calls)
             ELSE IF env.call = "notok_nomsg"
             THEN Handled(json_rpc_error(id, CodeInternal, <<"Unknown error">>), calls)
             ELSE Handled(json_rpc_error(id, CodeInternal, <<"Call failed">>), calls)

handle_tools_call(request, env) ==
    LET id        == get_id(request)
        tool_name == as_str_or(request.name, <<>>)
        arguments == IF request.arguments.kind = "absent"
                     THEN Arguments(JOther) ELSE request.arguments
    IN  IF tool_name = FgpListDaemons THEN handle_list_daemons(id, env)
        ELSE IF tool_name = FgpStartDaemon
        THEN handle_start_daemon(id, as_str_or(arguments.name, <<>>), env)
        ELSE IF tool_name = FgpStopDaemon
        THEN handle_stop_daemon(id, as_str_or(arguments.name, <<>>), env)
        ELSE LET parts == splitn2(strip_fgp(tool_name))
             IN  IF Len(parts) # 2
                 THEN Handled(json_rpc_error(id, CodeInvalidParams,
                                             <<"Invalid tool name format">>), <<>>)
                 ELSE LET daemon == parts[1]
                          method == replace(parts[2], "_", ".")
                          a      == auto_start(daemon, env)
                      IN  IF ~a.go
                          THEN Handled(json_rpc_error(id, CodeInternal,
                                                      <<"Failed to start daemon">>),
                                       a.calls)
                          ELSE LET c == call_daemon(id, daemon, method, arguments, env)
                               IN  Handled(c.response, a.calls \o c.calls)

\* request["method"].as_str().unwrap_or("")
get_method(request) == IF request.obj THEN as_str_or(request.method, "") ELSE ""

\* The match on method in serve()
dispatch(request, env) ==
    LET method == get_method(request)
    IN  IF method = "initialize" THEN handle_initialize(request)
        ELSE IF method = "tools/list" THEN handle_tools_list(env)
        ELSE IF method = "tools/call" THEN handle_tools_call(request, env)
        ELSE Handled(json_rpc_error(get_id(request), CodeMethodNotFound,
                                    <<"Method not found">>), <<>>)

\* What the handler of a request can meet.
Envs(request) ==
    IF request.method = JStr("tools/list") THEN ListEnvs
    ELSE IF request.method = JStr("tools/call")
    THEN (IF request.name = JStr(FgpListDaemons) THEN DaemonsEnvs ELSE CallEnvs)
    ELSE {NoEnv}

----------------------------------------------------------------------------
(* The bridge's loop: serve()                                              *)

NoResponse == [jsonrpc |-> "none"]

BInit ==
    /\ bpc = "read"
    /\ bline = "none"
    /\ breq = NoRequest
    /\ benv = NoEnv
    /\ bresp = NoResponse
    /\ btrace = <<>>

\* Reading a line from stdin fails: serve() returns the error.
ReadFails ==
    /\ bpc = "read"
    /\ bpc' = "failed"
    /\ bline' = "error"
    /\ UNCHANGED <<breq, benv, bresp, btrace>>
    /\ UNCHANGED <<wvars, hvars, cvars, xvars>>

\* stdin is at its end: the loop is over and serve() returns Ok.
ReadEof ==
    /\ bpc = "read"
    /\ bpc' = "eof"
    /\ bline' = "eof"
    /\ UNCHANGED <<breq, benv, bresp, btrace>>
    /\ UNCHANGED <<wvars, hvars, cvars, xvars>>

\* An empty line: continue.
ReadEmptyLine ==
    /\ bpc = "read"
    /\ bline' = "empty"
    /\ UNCHANGED <<bpc, breq, benv, bresp, btrace>>
    /\ UNCHANGED <<wvars, hvars, cvars, xvars>>

\* A variant that answers a line that is not JSON with a parse error and
\* goes on.
ReadInvalidJsonAnswered ==
    /\ bpc = "read"
    /\ bpc' = "wrote"
    /\ bline' = "invalid"
    /\ bresp' = json_rpc_error(Absent, -32700, <<"Parse error">>)
    /\ UNCHANGED <<breq, benv, btrace>>
    /\ UNCHANGED <<wvars, hvars, cvars, xvars>>

\* A line that is not JSON: serve() returns the error.
ReadInvalidJson ==
    /\ bpc = "read"
    /\ bpc' = "failed"
    /\ bline' = "invalid"
    /\ UNCHANGED <<breq, benv, bresp, btrace>>
    /\ UNCHANGED <<wvars, hvars, cvars, xvars>>

\* A line that parses: dispatch it, write the response and flush.
ServeRequest ==
    /\ bpc = "read"
    /\ \E request \in Requests :
         \E env \in Envs(request) :
            LET h == dispatch(request, env)
            IN  /\ breq' = request
                /\ benv' = env
                /\ bresp' = h.response
                /\ btrace' = h.calls
    /\ bpc' = "wrote"
    /\ bline' = "request"
    /\ UNCHANGED <<wvars, hvars, cvars, xvars>>

\* The iteration is over: its request and response go out of scope and the
\* loop reads the next line.
NextLine ==
    /\ bpc = "wrote"
    /\ bpc' = "read"
    /\ bline' = "none"
    /\ breq' = NoRequest
    /\ benv' = NoEnv
    /\ bresp' = NoResponse
    /\ btrace' = <<>>
    /\ UNCHANGED <<wvars, hvars, cvars, xvars>>

\* As ServeRequest, but writing the response to stdout fails: serve()
\* returns the error.
ServeRequestWriteFails ==
    /\ bpc = "read"
    /\ \E request \in Requests :
         \E env \in Envs(request) :
            LET h == dispatch(request, env)
            IN  /\ breq' = request
                /\ benv' = env
                /\ btrace' = h.calls
    /\ bresp' = NoResponse
    /\ bpc' = "failed"
    /\ bline' = "request"
    /\ UNCHANGED <<wvars, hvars, cvars, xvars>>

BNext ==
    \/ ReadFails
    \/ ReadEof
    \/ ReadEmptyLine
    \/ ReadInvalidJson
    \/ ServeRequest
    \/ NextLine
    \/ ServeRequestWriteFails

\* No MCP client session is followed.
CIdle ==
    /\ catalog = [offered |-> <<>>, tools |-> <<>>]
    /\ picked = 0

\* The daemons are not followed.
XIdle ==
    /\ world = [n \in Names |-> "gone"]
    /\ issued = [n \in Names |-> {}]
    /\ wobs = [cur |-> NoState, before |-> EmptyMap]
    /\ scanning = <<>>

\* The watchdog is not running.
WIdle ==
    /\ enabled = FALSE
    /\ max_restarts = 0
    /\ states = EmptyMap
    /\ attempts = EmptyMap
    /\ wpc = "check"
    /\ entries = <<>>
    /\ wlog = [n \in Names |-> <<>>]
    /\ visits = 0

Init == WInit /\ HIdle /\ BInit /\ CIdle /\ XIdle

WatchdogSpec == Init /\ [][WNext]_vars

\* The watchdog with auto-restart on and a limit of 1.
WRestartingInit ==
    /\ enabled = TRUE
    /\ max_restarts = 1
    /\ states = EmptyMap
    /\ attempts = EmptyMap
    /\ wpc = "check"
    /\ entries = <<>>
    /\ wlog = [n \in Names |-> <<>>]
    /\ visits = 0
    /\ HIdle
    /\ BInit
    /\ CIdle
    /\ XIdle

\* run() is one thread: whatever step comes next is taken (a probe, a start
\* and a sleep each return).
WatchdogFairSpec == WRestartingInit /\ [][WNext]_vars /\ WF_vars(WNext)

BridgeInit == WIdle /\ HIdle /\ BInit /\ CIdle /\ XIdle

BridgeSpec == BridgeInit /\ [][BNext]_vars

----------------------------------------------------------------------------
(* attempt_restart on its own: one call, for every tracker content         *)

\* Largest attempt counter a tracker holds when attempt_restart is called.
MaxCount == 2

\* HashMap<String, u32> contents: every service absent or counted 1..MaxCount.
Trackers ==
    UNION { [D -> 1..MaxCount] : D \in SUBSET Names }

RInit ==
    /\ enabled = TRUE
    /\ max_restarts \in MaxRestartsChoices
    /\ states = EmptyMap
    /\ attempts \in Trackers
    /\ wpc = "check"
    /\ entries = <<>>
    /\ wlog = [n \in Names |-> <<>>]
    /\ visits = 0
    /\ hpc = "call"
    /\ harg \in {[name |-> n, tracker |-> attempts] : n \in Names}
    /\ hret = <<>>
    /\ BInit
    /\ CIdle
    /\ XIdle

\* attempt_restart(name, watchdog, restart_tracker) runs to its return.
CallAttemptRestart ==
    /\ hpc = "call"
    /\ \E sr \in StartResults :
          LET r == attempt_restart(harg.name, max_restarts, attempts, sr)
          IN  /\ attempts' = r.tracker
              /\ hret' = r.events
    /\ hpc' = "done"
    /\ UNCHANGED <<enabled, max_restarts, states, wpc, entries, wlog, visits, harg>>
    /\ UNCHANGED <<bvars, cvars, xvars>>

RestartSpec == RInit /\ [][CallAttemptRestart]_vars

----------------------------------------------------------------------------
(* Tool names on their own: the name tools/list builds, decoded as in      *)
(* tools/call                                                              *)

\* Longest service name and longest daemon method name explored.
MaxNameLen == 2
MaxMethodLen == 3

\* Characters of service names and of daemon method names.
NameAlphabet == {"x", "-", "_"}
MethodAlphabet == {"q", ".", "_"}

ServiceNames == SeqsUpTo(NameAlphabet, MaxNameLen)
MethodNames == SeqsUpTo(MethodAlphabet, MaxMethodLen)

\* A variant that splits at the last underscore.
decode_tool_name_rsplit(tool_name) ==
    LET s  == strip_fgp(tool_name)
        us == {i \in 1..Len(s) : s[i] = "_"}
    IN  IF us = {} THEN [valid |-> FALSE]
        ELSE LET i == CHOOSE j \in us : \A k \in us : j >= k
             IN  [valid |-> TRUE, daemon |-> SubSeq(s, 1, i - 1),
                  method |-> replace(SubSeq(s, i + 1, Len(s)), "_", ".")]

\* "Parse tool name: fgp_daemon_method" in handle_tools_call: the daemon and
\* the method the call goes to.
decode_tool_name(tool_name) ==
    LET parts == splitn2(strip_fgp(tool_name))
    IN  IF Len(parts) # 2 THEN [valid |-> FALSE]
        ELSE [valid |-> TRUE, daemon |-> parts[1],
              method |-> replace(parts[2], "_", ".")]

NInit ==
    /\ WIdle
    /\ BInit
    /\ CIdle
    /\ XIdle
    /\ hpc = "call"
    /\ harg \in {[name |-> d, method |-> m] : d \in ServiceNames, m \in MethodNames}
    /\ hret = <<>>

\* The name is built as in handle_tools_list and decoded as in
\* handle_tools_call.
BuildAndDecode ==
    /\ hpc = "call"
    /\ LET tool == tool_name_of(harg.name, harg.method)
       IN  hret' = [tool |-> tool, decoded |-> decode_tool_name(tool)]
    /\ hpc' = "done"
    /\ UNCHANGED <<wvars, harg, bvars, cvars, xvars>>

NameSpec == NInit /\ [][BuildAndDecode]_vars

----------------------------------------------------------------------------
(* serve() with an MCP client that asks for the tools and then calls one   *)
(* of the tools it was given                                               *)

\* The methods one service offers as tools: the entries of its methods
\* array that the scan of handle_tools_list does not skip.
OfferedBy(d) ==
    IF d.sock /\ d.conn = "ok" /\ d.methods.kind = "array"
    THEN LET kept == SelectSeq(d.methods.list,
                         LAMBDA v : v.name \notin {JStr(MHealth), JStr(MStop), JStr(MMethods)})
         IN  [i \in 1..Len(kept) |-> [svc |-> d.name, method |-> kept[i].name]]
    ELSE <<>>

\* The same over the services directory, in the order of the scan.
RECURSIVE Offered(_)
Offered(ds) ==
    IF ds = <<>> THEN <<>> ELSE OfferedBy(Head(ds)) \o Offered(Tail(ds))

\* A tools/list request is answered; the client keeps the tools.
ClientListsTools ==
    /\ bpc = "read"
    /\ catalog.tools = <<>>
    /\ \E env \in ListEnvs :
          LET request == Request(TRUE, "7", JStr("tools/list"), JOther, NoArguments)
              h == dispatch(request, env)
          IN  /\ breq' = request
              /\ benv' = env
              /\ bresp' = h.response
              /\ btrace' = h.calls
              /\ catalog' = [offered |-> IF env.dir = "ok" THEN Offered(env.daemons)
                                         ELSE <<>>,
                             tools |-> h.response.result.tools]
    /\ bpc' = "wrote"
    /\ bline' = "request"
    /\ UNCHANGED <<wvars, hvars, picked, xvars>>

\* A tools/call request naming one of those tools is answered.
ClientCallsTool ==
    /\ bpc = "read"
    /\ picked = 0
    /\ \E i \in DOMAIN catalog.tools, a \in ArgumentValues :
          LET request == Request(TRUE, "7", JStr("tools/call"),
                                 JStr(catalog.tools[i].name), a)
          IN  \E env \in Envs(request) :
                 LET h == dispatch(request, env)
                 IN  /\ breq' = request
                     /\ benv' = env
                     /\ bresp' = h.response
                     /\ btrace' = h.calls
                     /\ picked' = i
    /\ bpc' = "wrote"
    /\ bline' = "request"
    /\ UNCHANGED <<wvars, hvars, catalog, xvars>>

ClientNext ==
    \/ ClientListsTools
    \/ ClientCallsTool
    \/ NextLine

ClientSpec == BridgeInit /\ [][ClientNext]_vars

----------------------------------------------------------------------------
(* The watchdog and the bridge side by side over the same services. The    *)
(* steps of each are its calls on what lies outside it, one call a step:   *)
(* read_dir, socket.exists(), FgpClient::new, health(), methods(), call(), *)
(* start_service, stop_service; the daemons change between the steps, and  *)
(* in any way with a call of start_service or stop_service.                *)

XInit ==
    /\ enabled = TRUE
    /\ max_restarts = 1
    /\ states = EmptyMap
    /\ attempts = EmptyMap
    /\ wpc = "check"
    /\ entries = <<>>
    /\ wlog = [n \in Names |-> <<>>]
    /\ visits = 0
    /\ HIdle
    /\ BInit
    /\ CIdle
    /\ world = [n \in Names |-> "up"]
    /\ issued = [n \in Names |-> {}]
    /\ wobs = [cur |-> NoState, before |-> EmptyMap]
    /\ scanning = <<>>

\* The conditions of a daemon in world: "up" and well, up but "unwell", down
\* with its socket file left behind ("stale"), down without socket file
\* ("gone"). The service whose daemon is followed through its conditions;
\* the daemons of the others stay up.
Followed == {NameX}

\* socket.exists()
SocketExists(w) == w # "gone"

\* Whether somebody listens on the socket: FgpClient::new succeeds.
Listening(w) == w \in {"up", "unwell"}

\* What client.health() can return, with the status string of its result. A
\* daemon that is up and well answers with a status that counts as running;
\* one that is unwell answers "degraded" or "unhealthy", or with ok = false,
\* or not at all; one that went down since the connection does not answer.
WorldHealths(w) ==
    IF w = "up"
    THEN { <<"ok", st>> : st \in {"healthy", "running", "starting", "absent"} }
    ELSE IF w = "unwell"
    THEN { <<"ok", "degraded">>, <<"ok", "unhealthy">>, <<"notok", "absent">>,
           <<"err", "absent">> }
    ELSE { <<"err", "absent">> }

\* What client.methods() can return.
WorldMethods(w) ==
    IF w = "up"
    THEN { MethodsOutcome("array", <<Method(JStr(<<"q">>), JOther, NoParams)>>) }
    ELSE IF w = "unwell"
    THEN { MethodsOutcome("array", <<Method(JStr(<<"q">>), JOther, NoParams)>>),
           MethodsOutcome("notok", <<>>), MethodsOutcome("err", <<>>) }
    ELSE { MethodsOutcome("err", <<>>) }

\* What client.call() can return.
WorldCalls(w) ==
    IF w = "up" THEN {"ok"}
    ELSE IF w = "unwell" THEN CallOutcomes
    ELSE {"err"}

\* The conditions of a daemon.
Conditions == {"up", "unwell", "stale", "gone"}

\* The condition of the daemon whose socket is at service_socket_path(name):
\* a name that no directory of the services directory bears has no socket.
ConditionAt(name) == IF name \in Names THEN world[name] ELSE "gone"

\* start_service(n) has returned to who. What it does to the daemon is the
\* lifecycle library's doing, not this program's: the daemon is in any
\* condition afterwards. A call with which the daemon went down came before
\* that going down.
Started(n, who) ==
    \E w \in Conditions :
       /\ world' = [world EXCEPT ![n] = w]
       /\ issued' = [issued EXCEPT ![n] =
                        IF Listening(world[n]) /\ ~Listening(w) THEN {}
                        ELSE @ \cup {who}]

\* stop_service(n) has returned; the same holds of it. When the daemon went
\* down with it, the starts called for its earlier going down are over.
Stopped(n) ==
    \E w \in Conditions :
       /\ world' = [world EXCEPT ![n] = w]
       /\ issued' = IF Listening(world[n]) /\ ~Listening(w)
                    THEN [issued EXCEPT ![n] = {}]
                    ELSE issued

\* A daemon goes down; its socket file stays or goes with it.
DaemonCrashes ==
    /\ \E n \in Followed, w \in {"stale", "gone"} :
          /\ Listening(world[n])
          /\ world' = [world EXCEPT ![n] = w]
          /\ issued' = [issued EXCEPT ![n] = {}]
    /\ UNCHANGED <<wvars, hvars, bvars, cvars, wobs, scanning>>

\* A daemon that is up becomes unwell, or well again.
DaemonFalters ==
    /\ \E n \in Followed :
          /\ Listening(world[n])
          /\ world' = [world EXCEPT ![n] = IF @ = "up" THEN "unwell" ELSE "up"]
    /\ UNCHANGED <<wvars, hvars, bvars, cvars, issued, wobs, scanning>>

\* The socket file a daemon left behind is removed.
SocketRemoved ==
    /\ \E n \in Followed :
          /\ world[n] = "stale"
          /\ world' = [world EXCEPT ![n] = "gone"]
    /\ UNCHANGED <<wvars, hvars, bvars, cvars, issued, wobs, scanning>>

\* A daemon that is down comes up: a start takes effect, or somebody else
\* starts it.
DaemonComesUp ==
    /\ \E n \in Followed :
          /\ ~Listening(world[n])
          /\ world' = [world EXCEPT ![n] = "up"]
    /\ UNCHANGED <<wvars, hvars, bvars, cvars, issued, wobs, scanning>>

\* Loop iterations of check_services explored side by side with the bridge.
MaxSideVisits == 2

\* What read_dir yields, to the watchdog in one pass and to the bridge in
\* one scan: the followed service is installed, alone or with an entry
\* whose name is not UTF-8, in either order.
FollowedListings ==
    { <<Entry(NameX, TRUE)>>,
      <<Entry(NameY, FALSE), Entry(NameX, TRUE)>>,
      <<Entry(NameX, TRUE), Entry(NameY, FALSE)>> }

\* check_services reads the directory and enters its loop.
CheckServicesFollowed ==
    /\ wpc = "check"
    /\ \E l \in FollowedListings :
          /\ visits + Len(l) <= MaxSideVisits
          /\ entries' = l
    /\ wpc' = "iter"
    /\ UNCHANGED <<enabled, max_restarts, states, attempts, wlog, visits>>
    /\ UNCHANGED <<hvars, bvars, cvars, xvars>>

\* The calls handle_state_change has made when attempt_restart falls asleep.
UpToSleep(events) ==
    SubSeq(events, 1, CHOOSE i \in DOMAIN events : events[i] = SleepDelay)

\* The iteration of the loop of check_services from the return of
\* get_service_state with current, up to its end or, when attempt_restart
\* goes on to start the service, up to its sleep of the restart delay: the
\* notification is sent and the counter incremented by then, the state is
\* not yet recorded.
HandleState(name, current) ==
    LET r == check_entry(name, current, states, enabled, max_restarts, attempts, "ok")
    IN  IF \E i \in DOMAIN r.visit.events : r.visit.events[i] = SleepDelay
        THEN /\ wpc' = "delay"
             /\ wobs' = [cur |-> current, before |-> attempts]
             /\ attempts' = r.tracker
             /\ wlog' = [wlog EXCEPT ![name] =
                            Append(@, [r.visit EXCEPT !.events = UpToSleep(@)])]
             /\ UNCHANGED <<states, entries, visits>>
        ELSE /\ wpc' = "iter"
             /\ states' = r.states
             /\ attempts' = r.tracker
             /\ wlog' = [wlog EXCEPT ![name] = Append(@, r.visit)]
             /\ entries' = Tail(entries)
             /\ visits' = visits + 1
             /\ UNCHANGED wobs

\* get_service_state: socket.exists(). Without socket the state is Stopped.
ProbeSocket ==
    /\ wpc = "iter"
    /\ entries # <<>>
    /\ Head(entries).utf8
    /\ LET name == Head(entries).name
       IN  IF SocketExists(world[name])
           THEN /\ wpc' = "conn"
                /\ UNCHANGED <<states, attempts, entries, wlog, visits, wobs>>
           ELSE HandleState(name, get_service_state(Probe(FALSE, "err", "err", "absent")))
    /\ UNCHANGED <<enabled, max_restarts>>
    /\ UNCHANGED <<hvars, bvars, cvars, world, issued, scanning>>

\* get_service_state: FgpClient::new(socket). When nobody listens the state
\* is Error.
ProbeConnects ==
    /\ wpc = "conn"
    /\ LET name == Head(entries).name
       IN  IF Listening(world[name])
           THEN /\ wpc' = "health"
                /\ UNCHANGED <<states, attempts, entries, wlog, visits, wobs>>
           ELSE HandleState(name, get_service_state(Probe(TRUE, "err", "err", "absent")))
    /\ UNCHANGED <<enabled, max_restarts>>
    /\ UNCHANGED <<hvars, bvars, cvars, world, issued, scanning>>

\* get_service_state: client.health() and the match on its answer.
ProbeHealth ==
    /\ wpc = "health"
    /\ \E a \in WorldHealths(world[Head(entries).name]) :
          HandleState(Head(entries).name,
                      get_service_state(Probe(TRUE, "ok", a[1], a[2])))
    /\ UNCHANGED <<enabled, max_restarts>>
    /\ UNCHANGED <<hvars, bvars, cvars, world, issued, scanning>>

\* attempt_restart wakes up and calls start_service; the iteration ends.
StartAfterDelay ==
    /\ wpc = "delay"
    /\ \E sr \in StartResults :
          LET name == Head(entries).name
              r    == check_entry(name, wobs.cur, states, enabled, max_restarts,
                                  wobs.before, sr)
          IN  /\ states' = r.states
              /\ attempts' = r.tracker
              /\ wlog' = [wlog EXCEPT ![name] =
                             Append(SubSeq(@, 1, Len(@) - 1), r.visit)]
              /\ Started(name, "watchdog")
    /\ wpc' = "iter"
    /\ wobs' = [cur |-> NoState, before |-> EmptyMap]
    /\ entries' = Tail(entries)
    /\ visits' = visits + 1
    /\ UNCHANGED <<enabled, max_restarts>>
    /\ UNCHANGED <<hvars, bvars, cvars, scanning>>

\* writeln!(stdout, "{}", response) and flush: the response is written, or
\* the write fails and serve() returns the error.
Written(response) ==
    \/ bpc' = "wrote" /\ bresp' = response
    \/ bpc' = "failed" /\ bresp' = NoResponse

\* The lines of the bridge whose handlers call nothing outside the bridge:
\* initialize, an unknown method, a tools/call of a name without daemon.
QuietRequests ==
    { Request(TRUE, "7", JStr("initialize"), JOther, NoArguments),
      Request(TRUE, "7", JStr("resources/list"), JOther, NoArguments),
      Request(TRUE, "7", JStr("tools/call"), JStr(Fgp \o NameX), NoArguments) }

\* serve() reads such a line and writes its response.
ServeQuietLine ==
    /\ bpc = "read"
    /\ \E request \in QuietRequests :
          LET h == dispatch(request, NoEnv)
          IN  /\ breq' = request
              /\ Written(h.response)
              /\ btrace' = h.calls
    /\ benv' = NoEnv
    /\ bline' = "request"
    /\ UNCHANGED <<wvars, hvars, cvars, xvars>>

\* entry.file_name().to_string_lossy().to_string(): of a name that is not
\* UTF-8, its characters with the character U+FFFD for the bytes that are
\* none.
to_string_lossy(e) == IF e.utf8 THEN e.name ELSE e.name \o <<"U+FFFD">>

\* serve() reads a tools/list or a tools/call of fgp_list_daemons; the
\* handler finds the services directory and reads it, or finds none and
\* the response is written.
ScanBegins ==
    /\ bpc = "read"
    /\ \E request \in
             { Request(TRUE, "7", JStr("tools/list"), JOther, NoArguments),
               Request(TRUE, "7", JStr("tools/call"), JStr(FgpListDaemons), NoArguments) },
          d \in {"ok", "missing", "unreadable"} :
          LET env == Env(d, <<>>, FALSE, "err", "err", "err", "err")
              h   == dispatch(request, env)
          IN  /\ breq' = request
              /\ benv' = env
              /\ IF d = "ok"
                 THEN /\ bpc' = "scan"
                      /\ scanning' \in FollowedListings
                      /\ UNCHANGED <<bresp, btrace>>
                 ELSE /\ Written(h.response)
                      /\ btrace' = h.calls
                      /\ UNCHANGED scanning
    /\ bline' = "request"
    /\ UNCHANGED <<wvars, hvars, cvars, world, issued, wobs>>

\* The scan comes to the next entry, of whatever name: socket.exists().
ScanSocket ==
    /\ bpc = "scan"
    /\ scanning # <<>>
    /\ LET n == to_string_lossy(Head(scanning))
           d == Daemon(n, SocketExists(ConditionAt(n)), "err", "err",
                       MethodsOutcome("err", <<>>))
       IN  /\ benv' = [benv EXCEPT !.daemons = Append(@, d)]
           /\ bpc' = IF d.sock THEN "scan_conn" ELSE "scan"
    /\ scanning' = Tail(scanning)
    /\ UNCHANGED <<bline, breq, bresp, btrace>>
    /\ UNCHANGED <<wvars, hvars, cvars, world, issued, wobs>>

\* The scan: FgpClient::new(&socket) for the entry.
ScanConnects ==
    /\ bpc = "scan_conn"
    /\ LET k == Len(benv.daemons)
           n == benv.daemons[k].name
       IN  IF Listening(ConditionAt(n))
           THEN /\ benv' = [benv EXCEPT !.daemons[k].conn = "ok"]
                /\ bpc' = "scan_query"
           ELSE /\ bpc' = "scan"
                /\ UNCHANGED benv
    /\ UNCHANGED <<bline, breq, bresp, btrace>>
    /\ UNCHANGED <<wvars, hvars, cvars, xvars>>

\* The scan: client.methods() for tools/list, client.health() for
\* fgp_list_daemons.
ScanQueries ==
    /\ bpc = "scan_query"
    /\ LET k == Len(benv.daemons)
           n == benv.daemons[k].name
       IN  IF breq.method = JStr("tools/list")
           THEN \E m \in WorldMethods(ConditionAt(n)) :
                   benv' = [benv EXCEPT !.daemons[k].methods = m]
           ELSE \E a \in WorldHealths(ConditionAt(n)) :
                   benv' = [benv EXCEPT !.daemons[k].health = a[1]]
    /\ bpc' = "scan"
    /\ UNCHANGED <<bline, breq, bresp, btrace>>
    /\ UNCHANGED <<wvars, hvars, cvars, xvars>>

\* The scan is over: the response is written.
ScanEnds ==
    /\ bpc = "scan"
    /\ scanning = <<>>
    /\ LET h == dispatch(breq, benv)
       IN  /\ Written(h.response)
           /\ btrace' = h.calls
    /\ UNCHANGED <<bline, breq, benv>>
    /\ UNCHANGED <<wvars, hvars, cvars, xvars>>

\* A variant that goes on to start the daemon whether or not its socket
\* exists.
CallReachesSocketTestAlways ==
    /\ bpc = "read"
    /\ \E n \in Followed :
          /\ breq' = Request(TRUE, "7", JStr("tools/call"),
                             JStr(tool_name_of(n, <<"q">>)), NoArguments)
          /\ benv' = Env("ok", <<>>, SocketExists(world[n]), "err", "err", "err", "err")
          /\ bpc' = "start"
    /\ bline' = "request"
    /\ UNCHANGED <<bresp, btrace>>
    /\ UNCHANGED <<wvars, hvars, cvars, xvars>>

\* serve() reads a tools/call of fgp_<n>_q; handle_tools_call looks for the
\* socket of n.
CallReachesSocketTest ==
    /\ bpc = "read"
    /\ \E n \in Followed :
          /\ breq' = Request(TRUE, "7", JStr("tools/call"),
                             JStr(tool_name_of(n, <<"q">>)), NoArguments)
          /\ benv' = Env("ok", <<>>, SocketExists(world[n]), "err", "err", "err", "err")
          /\ bpc' = IF SocketExists(world[n]) THEN "connect" ELSE "start"
    /\ bline' = "request"
    /\ UNCHANGED <<bresp, btrace>>
    /\ UNCHANGED <<wvars, hvars, cvars, xvars>>

\* The socket was missing: start_service. When it fails the error response
\* is written; when it succeeds the handler sleeps the grace period.
CallStartsDaemon ==
    /\ bpc = "start"
    /\ \E sr \in StartResults :
          LET n   == decode_tool_name(breq.name.s).daemon
              env == [benv EXCEPT !.start = sr]
              h   == dispatch(breq, env)
          IN  /\ benv' = env
              /\ Started(n, "bridge")
              /\ IF sr = "ok"
                 THEN bpc' = "connect" /\ UNCHANGED <<bresp, btrace>>
                 ELSE Written(h.response) /\ btrace' = h.calls
    /\ UNCHANGED <<bline, breq>>
    /\ UNCHANGED <<wvars, hvars, cvars, wobs, scanning>>

\* FgpClient::new(&socket), which succeeds when the daemon listens; when it
\* fails the error response is written.
CallConnects ==
    /\ bpc = "connect"
    /\ LET n == decode_tool_name(breq.name.s).daemon
       IN  IF Listening(world[n])
           THEN /\ benv' = [benv EXCEPT !.conn = "ok"]
                /\ bpc' = "call"
                /\ UNCHANGED <<bresp, btrace>>
           ELSE LET h == dispatch(breq, benv)
                IN  /\ Written(h.response)
                    /\ btrace' = h.calls
                    /\ UNCHANGED benv
    /\ UNCHANGED <<bline, breq>>
    /\ UNCHANGED <<wvars, hvars, cvars, xvars>>

\* client.call(&method, arguments) returns; the response is written.
CallReturns ==
    /\ bpc = "call"
    /\ \E cl \in WorldCalls(world[decode_tool_name(breq.name.s).daemon]) :
          LET env == [benv EXCEPT !.call = cl]
              h   == dispatch(breq, env)
          IN  /\ benv' = env
              /\ Written(h.response)
              /\ btrace' = h.calls
    /\ UNCHANGED <<bline, breq>>
    /\ UNCHANGED <<wvars, hvars, cvars, xvars>>

\* serve() reads a tools/call of fgp_start_daemon naming n:
\* handle_start_daemon calls start_service, whatever the socket of n, and
\* the response is written.
CallStartTool ==
    /\ bpc = "read"
    /\ \E n \in Followed, sr \in StartResults :
          LET request == Request(TRUE, "7", JStr("tools/call"), JStr(FgpStartDaemon),
                                 Arguments(JStr(n)))
              env == Env("ok", <<>>, SocketExists(world[n]), sr, "err", "err", "err")
              h   == dispatch(request, env)
          IN  /\ breq' = request
              /\ benv' = env
              /\ Written(h.response)
              /\ btrace' = h.calls
              /\ Started(n, "bridge")
    /\ bline' = "request"
    /\ UNCHANGED <<wvars, hvars, cvars, wobs, scanning>>

\* serve() reads a tools/call of fgp_stop_daemon naming n: handle_stop_daemon
\* calls stop_service and the response is written.
CallStopTool ==
    /\ bpc = "read"
    /\ \E n \in Followed, sp \in {"ok", "err"} :
          LET request == Request(TRUE, "7", JStr("tools/call"), JStr(FgpStopDaemon),
                                 Arguments(JStr(n)))
              env == Env("ok", <<>>, SocketExists(world[n]), "err", sp, "err", "err")
              h   == dispatch(request, env)
          IN  /\ breq' = request
              /\ benv' = env
              /\ Written(h.response)
              /\ btrace' = h.calls
              /\ Stopped(n)
    /\ bline' = "request"
    /\ UNCHANGED <<wvars, hvars, cvars, wobs, scanning>>

SideBySideNext ==
    \/ DaemonCrashes
    \/ DaemonFalters
    \/ SocketRemoved
    \/ DaemonComesUp
    \/ CheckServicesNoDir
    \/ CheckServicesFollowed
    \/ SkipEntry
    \/ ProbeSocket
    \/ ProbeConnects
    \/ ProbeHealth
    \/ StartAfterDelay
    \/ FinishPass
    \/ SleepInterval
    \/ ReadFails
    \/ ReadEof
    \/ ReadEmptyLine
    \/ ReadInvalidJson
    \/ ServeQuietLine
    \/ ScanBegins
    \/ ScanSocket
    \/ ScanConnects
    \/ ScanQueries
    \/ ScanEnds
    \/ CallReachesSocketTest
    \/ CallStartsDaemon
    \/ CallConnects
    \/ CallReturns
    \/ CallStartTool
    \/ CallStopTool
    \/ NextLine

SideBySideSpec == XInit /\ [][SideBySideNext]_vars

----------------------------------------------------------------------------
(* Properties of the watchdog                                              *)

Last(s) == s[Len(s)]

\* The visits of service n recorded so far.
Visits(n) == DOMAIN wlog[n]

Starts(v) == Cardinality({i \in DOMAIN v.events : v.events[i].ev = "start"})

Notified(v, title) == \E i \in DOMAIN v.events : v.events[i] = Notify(title)

IsCrash(v) == v.prev = "Running" /\ v.cur = "Error"

\* C1 (as claimed): with auto-restart enabled and maxRestarts = 1, the first
\* Running -> Error transition of a service invokes start, and every later
\* one is refused: no start is invoked and "Restart Limit Reached" is notified.
C1_SecondCrashRefused ==
    (enabled /\ max_restarts = 1) =>
        \A n \in Names : \A i \in Visits(n) :
            IsCrash(wlog[n][i]) =>
                IF \A j \in Visits(n) : j < i => ~IsCrash(wlog[n][j])
                THEN Starts(wlog[n][i]) = 1
                ELSE /\ Starts(wlog[n][i]) = 0
                     /\ Notified(wlog[n][i], "FGP Restart Limit Reached")

\* Three consecutive polls of service n, the first being its i-th, observed
\* Running, Error, Running.
CrashAndReturn(n, i) ==
    /\ i + 2 \in Visits(n)
    /\ wlog[n][i].cur = "Running"
    /\ wlog[n][i + 1].cur = "Error"
    /\ wlog[n][i + 2].cur = "Running"

\* C2: with auto-restart enabled and maxRestarts = 2, three consecutive polls
\* of a service that observe Running, Error, Running invoke start exactly
\* once, in the poll that observes Running -> Error, and once the poll that
\* observes the return to Running is over the service has no attempt counter.
C2_OneRestartThenReset ==
    (enabled /\ max_restarts = 2) =>
        \A n \in Names : \A i \in Visits(n) :
            CrashAndReturn(n, i) =>
                /\ Starts(wlog[n][i]) = 0
                /\ Starts(wlog[n][i + 1]) = 1
                /\ Starts(wlog[n][i + 2]) = 0
                /\ (i + 2 = Len(wlog[n]) => n \notin DOMAIN attempts)

C2_Witness ==
    /\ enabled
    /\ max_restarts = 2
    /\ \E n \in Names :
          /\ Len(wlog[n]) = 3
          /\ CrashAndReturn(n, 1)
          /\ Starts(wlog[n][2]) = 1
          /\ n \notin DOMAIN attempts

\* C3: a poll that observes a service change from a state other than Running
\* to Running leaves the service without an attempt counter; and no service
\* whose recorded state is Running has an attempt counter.
C3_RunningHasNoCounter ==
    /\ \A n \in DOMAIN attempts : n \in DOMAIN states /\ states[n] # "Running"
    /\ \A n \in Names :
          (/\ wlog[n] # <<>>
           /\ Last(wlog[n]).prev \notin {"Running", NoState}
           /\ Last(wlog[n]).cur = "Running") => n \notin DOMAIN attempts

\* A service crashed, was restarted (counter 1), and is now observed Running.
C3_Witness ==
    \E n \in Names :
        /\ Len(wlog[n]) >= 3
        /\ Starts(wlog[n][Len(wlog[n]) - 1]) = 1
        /\ Last(wlog[n]).prev = "Error"
        /\ Last(wlog[n]).cur = "Running"
        /\ states[n] = "Running"
        /\ n \notin DOMAIN attempts

\* C4: attempt_restart increments the counter first; if maxRestarts > 0 and
\* the incremented counter is greater than maxRestarts it notifies "Restart
\* Limit Reached", invokes no start and does not sleep the restart delay;
\* otherwise (maxRestarts = 0 included) it sleeps the restart delay and then
\* invokes start exactly once.
C4_RestartProcedure ==
    hpc = "done" =>
        LET count == Counter(harg.tracker, harg.name) + 1
        IN  /\ Counter(attempts, harg.name) = count
            /\ IF max_restarts > 0 /\ count > max_restarts
               THEN hret = <<Notify("FGP Restart Limit Reached")>>
               ELSE /\ Len(hret) >= 2
                    /\ hret[1] = SleepDelay
                    /\ hret[2].ev = "start"
                    /\ Cardinality({i \in DOMAIN hret : hret[i].ev = "start"}) = 1
                    /\ Cardinality({i \in DOMAIN hret : hret[i].ev = "sleep"}) = 1
                    /\ \A i \in DOMAIN hret :
                          hret[i] # Notify("FGP Restart Limit Reached")

\* A refused attempt: the counter went from 1 to 2 with maxRestarts = 1.
C4_Witness ==
    /\ hpc = "done"
    /\ max_restarts = 1
    /\ Counter(harg.tracker, harg.name) = 1
    /\ attempts[harg.name] = 2
    /\ hret = <<Notify("FGP Restart Limit Reached")>>

\* The visit that a step of the watchdog adds to the log of service n.
NewVisit(n) == Len(wlog'[n]) = Len(wlog[n]) + 1

\* C5: for every configuration, a poll that observes Running -> Unhealthy or
\* Unhealthy -> Running sends exactly one notification ("Service Unhealthy",
\* "Service Recovered"), invokes no start and does not increment the
\* attempt counter.
C5_UnhealthyOnlyNotifies ==
    [][\A n \in Names :
          NewVisit(n) =>
              /\ (Last(wlog'[n]).prev = "Running" /\ Last(wlog'[n]).cur = "Unhealthy") =>
                     /\ Last(wlog'[n]).events = <<Notify("FGP Service Unhealthy")>>
                     /\ Counter(attempts', n) <= Counter(attempts, n)
              /\ (Last(wlog'[n]).prev = "Unhealthy" /\ Last(wlog'[n]).cur = "Running") =>
                     /\ Last(wlog'[n]).events = <<Notify("FGP Service Recovered")>>
                     /\ Counter(attempts', n) <= Counter(attempts, n)]_vars

\* With auto-restart enabled, a service went unhealthy and came back.
C5_Witness ==
    /\ enabled
    /\ \E n \in Names :
          /\ Len(wlog[n]) >= 3
          /\ wlog[n][2].prev = "Running"
          /\ wlog[n][2].cur = "Unhealthy"
          /\ wlog[n][2].events = <<Notify("FGP Service Unhealthy")>>
          /\ wlog[n][3].cur = "Running"
          /\ wlog[n][3].events = <<Notify("FGP Service Recovered")>>

\* The pairs (previous, current) that notify, and those that may restart.
NotifyingPairs ==
    { <<"Running", "Error">>, <<"Running", "Stopped">>, <<"Running", "Unhealthy">>,
      <<"Unhealthy", "Running">>, <<"Error", "Running">>, <<"Stopped", "Running">> }

RestartPairs == { <<"Running", "Error">>, <<"Running", "Stopped">> }

TransitionTitles ==
    { "FGP Service Crashed", "FGP Service Stopped", "FGP Service Unhealthy",
      "FGP Service Recovered", "FGP Service Started" }

\* C6: a poll sends a transition notification iff (previous, current) is one
\* of the six pairs of the table; it enters the restart procedure iff the
\* watchdog is enabled and the pair is (Running, Error) or (Running,
\* Stopped); in every other case (first observation, no change, any other
\* pair) it sends no notification and invokes no start.
C6_TransitionTable ==
    \A n \in Names : \A i \in Visits(n) :
        LET v    == wlog[n][i]
            pair == <<v.prev, v.cur>>
        IN  /\ (pair \in NotifyingPairs) <=>
                   (/\ v.events # <<>>
                    /\ v.events[1].ev = "notify"
                    /\ v.events[1].arg \in TransitionTitles)
            /\ (pair \notin NotifyingPairs) => v.events = <<>>
            /\ (enabled /\ pair \in RestartPairs) <=> Len(v.events) > 1
            /\ \A j \in DOMAIN v.events :
                  (j > 1) => v.events[j].arg \notin TransitionTitles

\* One service was first observed unhealthy and then in error (nothing
\* sent); another crashed from Running and was restarted.
C6_Witness ==
    /\ enabled
    /\ \E n, m \in Names :
          /\ Len(wlog[n]) >= 2
          /\ wlog[n][1].prev = NoState
          /\ wlog[n][1].cur = "Unhealthy"
          /\ wlog[n][2].cur = "Error"
          /\ wlog[n][2].events = <<>>
          /\ Len(wlog[m]) >= 2
          /\ wlog[m][2].prev = "Running"
          /\ wlog[m][2].cur = "Stopped"
          /\ Len(wlog[m][2].events) > 1

----------------------------------------------------------------------------
(* Properties of the bridge                                                *)

\* The tool name the current request carries: params.name, "" if no string.
ToolName == IF breq.name.kind = "string" THEN breq.name.s ELSE <<>>

HasFgpPrefix(s) ==
    Len(s) >= 4 /\ s[1] = "f" /\ s[2] = "g" /\ s[3] = "p" /\ s[4] = "_"

\* The tool name without its fgp_ prefix, if it has one.
Stripped == IF HasFgpPrefix(ToolName) THEN SubSeq(ToolName, 5, Len(ToolName)) ELSE ToolName

HasUnderscore(s) == \E i \in DOMAIN s : s[i] = "_"

\* The position of the first underscore of s.
FirstUnderscore(s) == CHOOSE i \in DOMAIN s : s[i] = "_" /\ \A j \in 1..(i - 1) : s[j] # "_"

\* serve() has handled a request whose method is m.
Handling(m) ==
    /\ bpc \in {"wrote", "failed"}
    /\ breq.obj
    /\ breq.method = JStr(m)

\* serve() has handled a tools/call of a tool fgp_<daemon>_<method> that is
\* not a meta-tool.
HandlingDaemonCall ==
    /\ Handling("tools/call")
    /\ ToolName \notin MetaTools
    /\ HasUnderscore(Stripped)

TargetDaemon == SubSeq(Stripped, 1, FirstUnderscore(Stripped) - 1)

Count(op) == Cardinality({i \in DOMAIN btrace : btrace[i].op = op})

\* Every connection to a daemon and every call comes after position k.
CallsAfter(k) ==
    \A i \in DOMAIN btrace : btrace[i].op \in {"connect", "call"} => i > k

\* C7 (as claimed): a tools/call of fgp_<daemon>_<method> whose daemon's
\* endpoint is unreachable invokes start(daemon) exactly once and then waits
\* the grace period exactly once, both before the first call attempt; with a
\* reachable endpoint there is neither a start nor a wait.
C7_StartAndWaitAlways ==
    HandlingDaemonCall =>
        IF ~benv.sock
        THEN /\ Count("start") = 1
             /\ Count("sleep") = 1
             /\ Len(btrace) >= 2
             /\ btrace[1].op = "start"
             /\ btrace[1].svc = TargetDaemon
             /\ btrace[2] = CSleep(500)
             /\ CallsAfter(2)
             /\ Count("call") <= 1
        ELSE Count("start") = 0 /\ Count("sleep") = 0

\* C7 (amended): a tools/call of fgp_<daemon>_<method> whose daemon's
\* endpoint is unreachable invokes start(daemon) exactly once; when that
\* start succeeds it then waits the grace period exactly once, both before
\* the first call attempt, and makes at most one call attempt; when that
\* start fails there is no wait and no call attempt. With a reachable
\* endpoint there is neither a start nor a wait.
C7_StartThenWaitIfStarted ==
    HandlingDaemonCall =>
        IF ~benv.sock
        THEN /\ Count("start") = 1
             /\ btrace[1].op = "start"
             /\ btrace[1].svc = TargetDaemon
             /\ IF benv.start = "ok"
                THEN /\ Count("sleep") = 1
                     /\ Len(btrace) >= 2
                     /\ btrace[2] = CSleep(500)
                     /\ CallsAfter(2)
                     /\ Count("call") <= 1
                ELSE /\ Count("sleep") = 0
                     /\ Count("connect") = 0
                     /\ Count("call") = 0
        ELSE Count("start") = 0 /\ Count("sleep") = 0

\* fgp_x_q was called with daemon x unreachable: started, waited, connected,
\* called.
C7_Witness ==
    /\ HandlingDaemonCall
    /\ ~benv.sock
    /\ ToolName = Fgp \o <<"x", "_", "q">>
    /\ Len(btrace) = 4
    /\ btrace[1] = CStart(<<"x">>, "ok")
    /\ btrace[2] = CSleep(500)
    /\ btrace[3].op = "connect"
    /\ btrace[4].op = "call"

\* The number of tools a service must contribute to tools/list: one per
\* entry of its methods array not named health, stop or methods, if its
\* socket exists, the connection succeeds and the query yields an array.
Contribution(d) ==
    IF d.sock /\ d.conn = "ok" /\ d.methods.kind = "array"
    THEN Cardinality({i \in DOMAIN d.methods.list :
                         d.methods.list[i].name \notin
                             {JStr(MHealth), JStr(MStop), JStr(MMethods)}})
    ELSE 0

RECURSIVE Contributions(_)
Contributions(ds) ==
    IF ds = <<>> THEN 0 ELSE Contribution(Head(ds)) + Contributions(Tail(ds))

\* C8: for every registry content and every reachability and method-query
\* outcome, the response to tools/list is a success result whose tools hold
\* the three meta-tools, hold no tool named after the method health, stop or
\* methods of a listed service, and number three plus one per method, other
\* than those, of the reachable services whose method query succeeded.
C8_ToolsList ==
    (Handling("tools/list") /\ bpc = "wrote") =>
        /\ "result" \in DOMAIN bresp
        /\ "error" \notin DOMAIN bresp
        /\ LET tools == bresp.result.tools
           IN  /\ \A m \in MetaTools : \E i \in DOMAIN tools : tools[i].name = m
               /\ \A i \in DOMAIN tools : \A k \in DOMAIN benv.daemons :
                     \A m \in {MHealth, MStop, MMethods} :
                        tools[i].name # Fgp \o benv.daemons[k].name \o <<"_">> \o m
               /\ Len(tools) =
                     3 + (IF benv.dir = "ok" THEN Contributions(benv.daemons) ELSE 0)

\* Service x is unreachable; service y answers with methods "methods" and
\* "q.r": the tools are fgp_y_q_r and the three meta-tools.
C8_Witness ==
    /\ Handling("tools/list")
    /\ bpc = "wrote"
    /\ Len(benv.daemons) = 2
    /\ ~benv.daemons[1].sock
    /\ benv.daemons[2].methods = MethodsOutcome("array", <<Method(JStr(MMethods), JOther, NoParams),
                                            Method(JStr(MDotted), JOther, NoParams)>>)
    /\ Len(bresp.result.tools) = 4
    /\ bresp.result.tools[1].name = Fgp \o <<"y", "_", "q", "_", "r">>

\* C9: a request whose method is not initialize, tools/list or tools/call
\* (a missing or non-string method included) is answered with error code
\* -32601 and the request's id (null when the request has none), and makes
\* no call on a daemon or on the lifecycle.
C9_UnknownMethod ==
    (/\ bpc = "wrote"
     /\ ~(/\ breq.obj
          /\ breq.method \in {JStr("initialize"), JStr("tools/list"), JStr("tools/call")})) =>
        /\ "error" \in DOMAIN bresp
        /\ bresp.error.code = -32601
        /\ bresp.id = (IF breq.obj /\ breq.id # Absent THEN breq.id ELSE "null")
        /\ btrace = <<>>

C9_Witness ==
    /\ bpc = "wrote"
    /\ breq.obj
    /\ breq.method = JStr("resources/list")
    /\ breq.id = "7"
    /\ bresp.id = "7"
    /\ bresp.error.code = -32601

\* C10: a tools/call whose tool name is not a meta-tool and, stripped of
\* fgp_, holds no underscore to split at is answered with error code -32602
\* and invokes neither start nor call on any daemon.
C10_InvalidToolName ==
    (/\ Handling("tools/call")
     /\ bpc = "wrote"
     /\ ToolName \notin MetaTools
     /\ ~HasUnderscore(Stripped)) =>
        /\ "error" \in DOMAIN bresp
        /\ bresp.error.code = -32602
        /\ btrace = <<>>

C10_Witness ==
    /\ Handling("tools/call")
    /\ bpc = "wrote"
    /\ ToolName = Fgp \o <<"x">>
    /\ bresp.error.code = -32602
    /\ btrace = <<>>

----------------------------------------------------------------------------
(* Properties of tool names                                                *)

\* C12 (as claimed): a tools/call of a tool that tools/list built from
\* method m of service s makes its calls on s only, stops nothing, calls m
\* with the request's arguments and nothing else, and does call m once s is
\* reachable (its socket exists or its start succeeds) and the connection
\* succeeds.
C12_ListedToolDelegates ==
    (/\ bpc = "wrote"
     /\ picked \in DOMAIN catalog.offered
     /\ catalog.offered[picked].method.kind = "string") =>
        LET s == catalog.offered[picked].svc
            m == catalog.offered[picked].method.s
            arguments == IF breq.arguments.kind = "absent"
                         THEN Arguments(JOther) ELSE breq.arguments
        IN  /\ \A i \in DOMAIN btrace :
                  /\ btrace[i].op \in {"start", "sleep", "connect", "call"}
                  /\ btrace[i].op # "sleep" => btrace[i].svc = s
                  /\ btrace[i].op = "call" =>
                        btrace[i].method = m /\ btrace[i].args = arguments
            /\ ((benv.sock \/ benv.start = "ok") /\ benv.conn = "ok") =>
                  Count("call") = 1

\* The parts of a method name, taken apart at its dots and underscores.
RECURSIVE Segments(_)
Segments(s) ==
    LET seps == {i \in 1..Len(s) : s[i] \in {".", "_"}}
    IN  IF seps = {} THEN <<s>>
        ELSE LET i == CHOOSE j \in seps : \A k \in seps : j <= k
             IN  <<SubSeq(s, 1, i - 1)>> \o Segments(SubSeq(s, i + 1, Len(s)))

RECURSIVE DotJoin(_)
DotJoin(segs) ==
    IF Len(segs) = 1 THEN segs[1]
    ELSE segs[1] \o <<".">> \o DotJoin(Tail(segs))

\* C11: for a daemon name d without underscore and a method name m, the tool
\* name built for (d, m) decodes to daemon d and to the segments of m joined
\* by dots; for a dotted m (no underscore of its own) that is m itself.
C11_NameRoundTrip ==
    (hpc = "done" /\ ~HasUnderscore(harg.name)) =>
        /\ hret.tool = Fgp \o harg.name \o <<"_">> \o replace(harg.method, ".", "_")
        /\ hret.decoded.valid
        /\ hret.decoded.daemon = harg.name
        /\ hret.decoded.method = DotJoin(Segments(harg.method))
        /\ (~HasUnderscore(harg.method) => hret.decoded.method = harg.method)

C11_Witness ==
    /\ hpc = "done"
    /\ harg = [name |-> <<"x", "-">>, method |-> <<"q", ".", "q">>]
    /\ hret.tool = Fgp \o <<"x", "-", "_", "q", "_", "q">>
    /\ hret.decoded = [valid |-> TRUE, daemon |-> <<"x", "-">>,
                       method |-> <<"q", ".", "q">>]

----------------------------------------------------------------------------
(* Properties of the bridge's responses                                    *)

\* C13 (as claimed): the response written for a parsed request carries the
\* request's id unchanged, and carries no id when the request has none.
C13_IdEchoed ==
    (bpc = "wrote" /\ bline = "request") =>
        IF get_id(breq) # Absent
        THEN "id" \in DOMAIN bresp /\ bresp.id = breq.id
        ELSE "id" \notin DOMAIN bresp

\* A connection, a call, a health query, a start or a stop made for the
\* current request did not succeed.
Failed ==
    \E i \in DOMAIN btrace :
        /\ btrace[i].op \in {"start", "stop", "connect", "call", "health"}
        /\ btrace[i].res # "ok"

IsInternalError ==
    /\ "error" \in DOMAIN bresp
    /\ "result" \notin DOMAIN bresp
    /\ bresp.error.code = -32603

\* C14 (as claimed): whenever a connection, a daemon's answer, a start or a
\* stop fails while a tools/call is handled, the response written is an
\* error with code -32603 and the loop goes on to the next line.
C14_EveryFailureIsInternalError ==
    (Handling("tools/call") /\ Failed /\ bresp # NoResponse) =>
        /\ IsInternalError
        /\ bpc = "wrote"
        /\ ENABLED NextLine

\* C14 (amended): whenever a connection, a daemon's answer, a start or a stop
\* fails while a tools/call of a tool other than fgp_list_daemons is
\* handled, the one response written for the request is an error with code
\* -32603 and the loop goes on to the next line; fgp_list_daemons reports a
\* failed connection or health query in a success result instead, and the
\* loop goes on as well.
C14_FailureIsInternalErrorButListing ==
    (Handling("tools/call") /\ Failed /\ bresp # NoResponse) =>
        /\ IF ToolName = FgpListDaemons
           THEN "result" \in DOMAIN bresp /\ "error" \notin DOMAIN bresp
           ELSE IsInternalError
        /\ bresp.id = id_json(breq.id)
        /\ bpc = "wrote"
        /\ ENABLED NextLine

\* fgp_x_q met a daemon that answered with ok = false: error -32603 written,
\* the loop is about to read the next line.
C14_Witness ==
    /\ Handling("tools/call")
    /\ bpc = "wrote"
    /\ ToolName = Fgp \o <<"x", "_", "q">>
    /\ Len(btrace) = 2
    /\ btrace[2].op = "call"
    /\ btrace[2].res = "notok_msg"
    /\ bresp.error.code = -32603
    /\ ENABLED NextLine

----------------------------------------------------------------------------
(* Properties of the watchdog's loop                                       *)

\* A visit in which start_service was called and failed.
StartFailed(v) == \E i \in DOMAIN v.events : v.events[i] = Start("err")

\* The attempt counter of service n is beyond the limit.
Exceeded(n) == max_restarts > 0 /\ Counter(attempts, n) > max_restarts

\* C16: while the attempt counter of a service is beyond maxRestarts > 0, no
\* step lowers or removes it, and a poll that observes a transition eligible
\* for restart adds one to it, invokes no start and notifies "Restart Limit
\* Reached". In a run of the watchdog the counter is never beyond the limit
\* (C16_NeverExceeded), so this holds of every run without any run coming to
\* the case it is about.
C16_ExceededStaysRefused ==
    [][\A n \in Names :
          Exceeded(n) =>
              /\ Counter(attempts', n) >= Counter(attempts, n)
              /\ (NewVisit(n) /\ should_restart(Last(wlog'[n]).prev, Last(wlog'[n]).cur)) =>
                     /\ Counter(attempts', n) = Counter(attempts, n) + 1
                     /\ Starts(Last(wlog'[n])) = 0
                     /\ Notified(Last(wlog'[n]), "FGP Restart Limit Reached")]_vars

\* No service's attempt counter is ever beyond maxRestarts > 0.
C16_NeverExceeded == \A n \in Names : ~Exceeded(n)

\* C17: a poll of a service in which start_service is called and fails calls
\* it once, notifies "FGP Restart Failed" last and once, leaves the counter
\* at its value before the poll plus one, records the observed Stopped or
\* Error state as the service's previous state, leaves the other service's
\* state and counter alone, and the pass goes on with the entries that
\* remain.
C17_FailedStartGoesOn ==
    [][\A n \in Names :
          (NewVisit(n) /\ StartFailed(Last(wlog'[n]))) =>
              LET v == Last(wlog'[n])
              IN  /\ Starts(v) = 1
                  /\ Last(v.events) = Notify("FGP Restart Failed")
                  /\ Cardinality({i \in DOMAIN v.events :
                                     v.events[i] = Notify("FGP Restart Failed")}) = 1
                  /\ n \in DOMAIN attempts'
                  /\ attempts'[n] = Counter(attempts, n) + 1
                  /\ v.cur \in {"Stopped", "Error"}
                  /\ states'[n] = v.cur
                  /\ \A o \in Names \ {n} :
                        /\ Counter(attempts', o) = Counter(attempts, o)
                        /\ (o \in DOMAIN states') = (o \in DOMAIN states)
                        /\ o \in DOMAIN states => states'[o] = states[o]
                  /\ wpc = "iter" /\ wpc' = "iter"
                  /\ entries' = Tail(entries)]_vars

\* In the second pass over x and y the restart of x failed: x is recorded
\* as Error with counter 1, and y was polled after it in the same pass.
C17_Witness ==
    /\ enabled
    /\ visits = 4
    /\ Len(wlog[NameX]) = 2
    /\ Len(wlog[NameY]) = 2
    /\ StartFailed(wlog[NameX][2])
    /\ states[NameX] = "Error"
    /\ Counter(attempts, NameX) = 1
    /\ wpc = "iter"
    /\ entries = <<>>

\* C15: run() never ends: in every state it has a next step; a pass that has
\* begun reaches its end and the sleep, whatever its probes and starts gave,
\* and so does a pass whose directory could not be read; after the sleep the
\* next pass begins. A pass begins only after the sleep that follows the
\* pass before it, and while a pass goes through its entries no other
\* listing replaces them.
C15_PassesFollowOneAnother ==
    /\ [](wpc \in {"check", "iter", "sleep"} /\ ENABLED WNext)
    /\ [](wpc = "check" => <>(wpc = "sleep"))
    /\ [](wpc = "iter" => <>(wpc = "sleep"))
    /\ [](wpc = "sleep" => <>(wpc = "check"))
    /\ [][/\ wpc = "check" => wpc' \in {"iter", "sleep"}
          /\ wpc = "iter" => wpc' \in {"iter", "sleep"}
          /\ wpc = "sleep" => wpc' = "check"
          /\ wpc = "iter" /\ wpc' = "iter" =>
                entries # <<>> /\ entries' = Tail(entries)
          /\ wpc = "iter" /\ wpc' = "sleep" => entries = <<>>]_vars

\* The second pass met a crash of x whose restart failed; it came to its end
\* and, after the sleep, a third pass is going through its entries.
C15_Witness ==
    /\ enabled
    /\ wpc = "iter"
    /\ entries # <<>>
    /\ visits = 2
    /\ Len(wlog[NameX]) = 2
    /\ StartFailed(wlog[NameX][2])

\* The status the listing must give a service: stopped without a socket,
\* running when the connection succeeds and the health query is answered
\* with ok, error otherwise.
ClaimedStatus(d) ==
    IF ~d.sock THEN "stopped"
    ELSE IF d.conn = "ok" /\ d.health = "ok" THEN "running"
    ELSE "error"

\* C18 (as claimed): fgp_list_daemons answers with a success result that
\* lists every service of the registry once, in order, with the status
\* running, error or stopped as above, and invokes neither start nor stop.
C18_ListDaemonsStatus ==
    (/\ Handling("tools/call")
     /\ bpc = "wrote"
     /\ ToolName = FgpListDaemons) =>
        /\ "result" \in DOMAIN bresp
        /\ "error" \notin DOMAIN bresp
        /\ LET listed == bresp.result.content[1].text
               ds == IF benv.dir = "ok" THEN benv.daemons ELSE <<>>
           IN  /\ Len(listed) = Len(ds)
               /\ \A k \in DOMAIN ds :
                     /\ listed[k].name = ds[k].name
                     /\ listed[k].status = ClaimedStatus(ds[k])
        /\ Count("start") = 0
        /\ Count("stop") = 0

\* C19: once a line that is not JSON has been read, serve() has returned an
\* error: no response was written for the line, no call was made, and no
\* further line is read or answered. Once an empty line has been read,
\* nothing was written or called for it and serve() is reading on: it can
\* answer a request and skip another empty line.
C19_InvalidLineEndsLoop ==
    /\ bline = "invalid" =>
          /\ bpc = "failed"
          /\ bresp = NoResponse
          /\ btrace = <<>>
          /\ ~ENABLED BNext
    /\ bline = "empty" =>
          /\ bpc = "read"
          /\ bresp = NoResponse
          /\ btrace = <<>>
          /\ ENABLED ServeRequest
          /\ ENABLED ReadEmptyLine
          /\ ENABLED ReadInvalidJson

\* A line that is not JSON was read: serve() is over, nothing written.
C19_Witness ==
    /\ bline = "invalid"
    /\ bpc = "failed"
    /\ bresp = NoResponse
    /\ ~ENABLED BNext

----------------------------------------------------------------------------
(* Properties of the watchdog and the bridge side by side                  *)

\* A step of serve(), and a step of run().
BridgeStep == bvars' # bvars \/ scanning' # scanning
WatchdogStep == wvars' # wvars \/ wobs' # wobs

\* The steps of the bridge leave the watchdog's maps and position alone, the
\* steps of the watchdog leave the bridge's iteration alone, and a call of
\* start_service is the bridge's in a step of the bridge and the
\* watchdog's in a step of the watchdog.
EachWritesItsOwn ==
    /\ BridgeStep => UNCHANGED <<wvars, wobs>>
    /\ WatchdogStep => UNCHANGED <<bvars, scanning>>
    /\ \A n \in Names :
          issued'[n] \ issued[n] \subseteq
              (IF BridgeStep THEN {"bridge"}
               ELSE IF WatchdogStep THEN {"watchdog"} ELSE {})

\* C20 (as claimed): side by side, the previous-state map and the restart
\* counters are written by the watchdog only, and the bridge and the
\* watchdog never both call start_service for the same going down of a
\* service.
C20_NeverBothStart ==
    /\ [](\A n \in Names : Cardinality(issued[n]) <= 1)
    /\ [][EachWritesItsOwn]_vars

\* The calls of start_service and of stop_service in the calls the bridge
\* made for the request it has just answered.
NewCalls(op) ==
    IF btrace' = btrace THEN {}
    ELSE {btrace'[i] : i \in {j \in DOMAIN btrace' : btrace'[j].op = op}}

\* C20 (amended): side by side, the previous-state map and the restart
\* counters are written by the watchdog only and the state of the bridge's
\* iteration by the bridge only, while the services are acted on by both:
\* the bridge calls start_service only for the daemon of a tools/call
\* whose socket it found missing or for a call of fgp_start_daemon, and
\* stop_service only for a call of fgp_stop_daemon; the watchdog calls
\* start_service only after its restart delay, for the service it observed
\* to go from Running to Stopped or Error.
C20_OnlyMemoryIsApart ==
    [][/\ EachWritesItsOwn
       /\ \A n \in Names :
             /\ ("bridge" \in issued'[n] /\ "bridge" \notin issued[n]) =>
                   \/ /\ bpc = "start"
                      /\ ~benv.sock
                      /\ breq.name = JStr(tool_name_of(n, <<"q">>))
                   \/ /\ bpc = "read"
                      /\ breq'.name = JStr(FgpStartDaemon)
                      /\ breq'.arguments = Arguments(JStr(n))
             /\ \/ "watchdog" \in issued'[n] /\ "watchdog" \notin issued[n]
                \/ wlog'[n] # wlog[n] /\ Starts(Last(wlog'[n])) > 0
                =>
                   /\ wpc = "delay"
                   /\ Head(entries).name = n
                   /\ wobs.cur \in {"Stopped", "Error"}
                   /\ Last(wlog[n]).prev = "Running"
                   /\ Last(Last(wlog[n]).events) = SleepDelay
                   /\ Starts(Last(wlog[n])) = 0
                   /\ Starts(Last(wlog'[n])) = 1
       /\ \A c \in NewCalls("start") :
             \/ /\ bpc = "read"
                /\ breq'.name = JStr(FgpStartDaemon)
                /\ breq'.arguments = Arguments(JStr(c.svc))
             \/ /\ bpc \in {"start", "connect", "call"}
                /\ ~benv'.sock
                /\ breq.name = JStr(tool_name_of(c.svc, <<"q">>))
       /\ \A c \in NewCalls("stop") :
             /\ bpc = "read"
             /\ breq'.name = JStr(FgpStopDaemon)
             /\ breq'.arguments = Arguments(JStr(c.svc))]_vars

\* Service x went down once; the bridge started it for a tools/call and the
\* watchdog started it again for the transition it had observed.
C20_Witness ==
    /\ issued[NameX] = {"bridge", "watchdog"}
    /\ Len(wlog[NameX]) = 2
    /\ wlog[NameX][2].prev = "Running"
    /\ wlog[NameX][2].cur = "Stopped"
    /\ Starts(wlog[NameX][2]) = 1
    /\ Counter(attempts, NameX) = 1
    /\ bpc = "wrote"
    /\ breq.name = JStr(tool_name_of(NameX, <<"q">>))
    /\ Len(btrace) > 0
    /\ btrace[1] = CStart(NameX, "ok")

----------------------------------------------------------------------------
(* Properties of the attempt counters and of the starts                    *)

\* The polls of service n that observed a change from Running to Stopped or
\* Error.
CrashPolls(n) ==
    {i \in Visits(n) : <<wlog[n][i].prev, wlog[n][i].cur>> \in RestartPairs}

\* C21: for every configuration and every sequence of observed states, the
\* attempt counter of a service is at most 1; a service has a counter only
\* with auto-restart enabled, while its recorded state is not Running, and
\* after a poll that observed it go from Running to Stopped or Error.
C21_CounterAtMostOne ==
    \A n \in Names :
        /\ Counter(attempts, n) <= 1
        /\ n \in DOMAIN attempts =>
              /\ attempts[n] = 1
              /\ enabled
              /\ states[n] # "Running"
              /\ CrashPolls(n) # {}

\* With a limit of 1, service x crashed, came back and crashed again: its
\* counter is 1 after the second crash as after the first.
C21_Witness ==
    /\ enabled
    /\ max_restarts = 1
    /\ Len(wlog[NameX]) = 4
    /\ CrashPolls(NameX) = {2, 4}
    /\ wlog[NameX][3].cur = "Running"
    /\ attempts[NameX] = 1

\* C22: a poll of a service calls start_service at most once, and only when
\* it observes the service go from Running to Stopped or Error; between two
\* polls of a service that call start_service, a poll observed the service
\* as Running; and a poll that finds a service that was Stopped or Error
\* still Stopped or Error calls nothing.
C22_OneStartPerCrash ==
    \A n \in Names :
        /\ \A i \in Visits(n) :
              /\ Starts(wlog[n][i]) <= 1
              /\ Starts(wlog[n][i]) = 1 => i \in CrashPolls(n)
              /\ (/\ wlog[n][i].prev \in {"Stopped", "Error"}
                  /\ wlog[n][i].cur \in {"Stopped", "Error"}) =>
                    wlog[n][i].events = <<>>
        /\ \A i, j \in Visits(n) :
              (i < j /\ Starts(wlog[n][i]) = 1 /\ Starts(wlog[n][j]) = 1) =>
                  \E k \in Visits(n) : i < k /\ k < j /\ wlog[n][k].cur = "Running"

\* Service x crashed and was started; it was then seen Error, Stopped and
\* Error again, and no further start was made.
C22_Witness ==
    /\ enabled
    /\ Len(wlog[NameX]) = 5
    /\ wlog[NameX][2].prev = "Running"
    /\ wlog[NameX][2].cur = "Error"
    /\ Starts(wlog[NameX][2]) = 1
    /\ wlog[NameX][3].cur = "Error"
    /\ wlog[NameX][4].cur = "Stopped"
    /\ wlog[NameX][5].cur = "Error"
    /\ \A i \in 3..5 : wlog[NameX][i].events = <<>>

\* The transition notifications among the calls of a poll.
TransitionNotes(events) ==
    SelectSeq(events, LAMBDA e : e.ev = "notify" /\ e.arg \in TransitionTitles)

\* C23: with auto-restart disabled, for every sequence of observed states,
\* no service has an attempt counter and every poll makes no call but, for
\* one of the six notifying transitions, the one notification of that
\* transition: no start, no sleep of the restart delay; and that
\* notification is the transition notification the same poll sends with
\* auto-restart enabled.
C23_DisabledOnlyNotifies ==
    ~enabled =>
        /\ attempts = EmptyMap
        /\ \A n \in Names : \A i \in Visits(n) :
              LET v == wlog[n][i]
              IN  /\ \A k \in DOMAIN v.events : v.events[k].ev = "notify"
                  /\ v.events =
                        (IF <<v.prev, v.cur>> \in NotifyingPairs
                         THEN <<Notify(transition_title(v.prev, v.cur))>>
                         ELSE <<>>)
                  /\ \A sr \in StartResults :
                        v.events =
                          TransitionNotes(
                            check_entry(n, v.cur,
                                        IF v.prev = NoState THEN EmptyMap
                                        ELSE Insert(EmptyMap, n, v.prev),
                                        TRUE, max_restarts, EmptyMap, sr).visit.events)

\* With auto-restart disabled, service x crashed and came back: one
\* notification each, no start, no counter.
C23_Witness ==
    /\ ~enabled
    /\ Len(wlog[NameX]) = 3
    /\ wlog[NameX][2].prev = "Running"
    /\ wlog[NameX][2].cur = "Error"
    /\ wlog[NameX][2].events = <<Notify("FGP Service Crashed")>>
    /\ wlog[NameX][3].events = <<Notify("FGP Service Started")>>
    /\ attempts = EmptyMap

----------------------------------------------------------------------------
(* Properties of the bridge's auto-start                                   *)

\* C24: when a tools/call of fgp_<daemon>_<method> finds the daemon's socket
\* missing and start_service fails, the response written is an error with
\* code -32603 and the request's id, and the failed start of that daemon is
\* the only call made: no grace sleep, no connection, no call of the method.
C24_FailedAutoStartStops ==
    (/\ HandlingDaemonCall
     /\ bpc = "wrote"
     /\ ~benv.sock
     /\ benv.start # "ok") =>
        /\ IsInternalError
        /\ bresp.error.message = <<"Failed to start daemon">>
        /\ bresp.id = id_json(breq.id)
        /\ btrace = <<CStart(TargetDaemon, "err")>>

\* fgp_x_q with id "r1": x has no socket and cannot be started, though a
\* connection and a call would have succeeded.
C24_Witness ==
    /\ HandlingDaemonCall
    /\ bpc = "wrote"
    /\ ToolName = Fgp \o <<"x", "_", "q">>
    /\ breq.id = "\"r1\""
    /\ ~benv.sock
    /\ benv.start = "err"
    /\ benv.conn = "ok"
    /\ benv.call = "ok"
    /\ bresp.error.code = -32603
    /\ btrace = <<CStart(<<"x">>, "err")>>

====
